---- MODULE Spec2Model ----
(***************************************************************************)
(* The answer-equivalence evaluation engine of the math-solver backend:    *)
(* the Normalizer, Extractor, SimilarityScorer and SemanticJudge that      *)
(* MathematicalAccuracyMetric composes, the completeness and confidence    *)
(* metrics, and the batch evaluation that drives them.                     *)
(*                                                                         *)
(* A Python str is a sequence of characters; a character is a one-letter   *)
(* TLA+ string, and the non-ASCII symbols the code names are the atoms     *)
(* "DEG", "ANGLE", ... below ("DQUOTE", "BACKSLASH", "BACKQUOTE" are    *)
(* those three characters).  Python's None is the value None.              *)
(***************************************************************************)
EXTENDS Integers, Sequences, FiniteSets, TLC

----------------------------------------------------------------------------
(* Characters and the Python str / re primitives the code uses.            *)

None == <<"NONE">>

Digits == {"0","1","2","3","4","5","6","7","8","9"}

DigitSeq == <<"0","1","2","3","4","5","6","7","8","9">>

\* str whitespace, the class \s of re (ASCII part)
Whitespace == {" ", "\t", "\n", "\r"}

\* the characters [^\n\r] excludes
LineBreaks == {"\n", "\r"}

\* string.punctuation
Punctuation ==
    {"!","DQUOTE","#","$","%","&","'","(",")","*","+",",","-",".","/",":",";",
     "<","=",">","?","@","[","BACKSLASH","]","^","_","BACKQUOTE","{","|","}","~"}

UpperToLower ==
    {<<"A","a">>,<<"B","b">>,<<"C","c">>,<<"D","d">>,<<"E","e">>,<<"F","f">>,
     <<"G","g">>,<<"H","h">>,<<"I","i">>,<<"J","j">>,<<"K","k">>,<<"L","l">>,
     <<"M","m">>,<<"N","n">>,<<"O","o">>,<<"P","p">>,<<"Q","q">>,<<"R","r">>,
     <<"S","s">>,<<"T","t">>,<<"U","u">>,<<"V","v">>,<<"W","w">>,<<"X","x">>,
     <<"Y","y">>,<<"Z","z">>}

LowerChar(c) ==
    IF \E p \in UpperToLower : p[1] = c
    THEN (CHOOSE p \in UpperToLower : p[1] = c)[2]
    ELSE c

\* str.lower()
lower(s) == [i \in 1..Len(s) |-> LowerChar(s[i])]

\* s[i:] with i counted from 1
From(s, i) == SubSeq(s, i, Len(s))

\* the index after the longest run of characters of set that starts at i
RECURSIVE RunEnd(_, _, _)
RunEnd(s, i, set) ==
    IF i <= Len(s) /\ s[i] \in set THEN RunEnd(s, i + 1, set) ELSE i

\* the index before the longest run of characters of set that ends at i
RECURSIVE RunStart(_, _, _)
RunStart(s, i, set) ==
    IF i >= 1 /\ s[i] \in set THEN RunStart(s, i - 1, set) ELSE i

\* str.strip(chars)
strip_chars(s, set) ==
    SubSeq(s, RunEnd(s, 1, set), RunStart(s, Len(s), set))

\* str.strip()
strip(s) == strip_chars(s, Whitespace)

\* str.startswith(p)
startswith(s, p) == Len(p) <= Len(s) /\ SubSeq(s, 1, Len(p)) = p

\* str.endswith(p)
endswith(s, p) ==
    Len(p) <= Len(s) /\ SubSeq(s, Len(s) - Len(p) + 1, Len(s)) = p

\* p occurs in s at index i
OccursAt(s, p, i) ==
    i + Len(p) - 1 <= Len(s) /\ SubSeq(s, i, i + Len(p) - 1) = p

\* the Python operator `p in s` on two strings; "" in s is True for every s
contains(s, p) == \E i \in 1..(Len(s) + 1) : OccursAt(s, p, i)

\* str.replace(old, new) for a non-empty old, scanning from index i
RECURSIVE ReplaceFrom(_, _, _, _)
ReplaceFrom(s, old, new, i) ==
    IF i > Len(s) THEN <<>>
    ELSE IF OccursAt(s, old, i)
         THEN new \o ReplaceFrom(s, old, new, i + Len(old))
         ELSE <<s[i]>> \o ReplaceFrom(s, old, new, i + 1)

replace(s, old, new) == ReplaceFrom(s, old, new, 1)

DigitVal(c) == (CHOOSE k \in 1..10 : DigitSeq[k] = c) - 1

\* int(digits)
RECURSIVE IntOfFrom(_, _, _)
IntOfFrom(ds, i, acc) ==
    IF i > Len(ds) THEN acc ELSE IntOfFrom(ds, i + 1, acc * 10 + DigitVal(ds[i]))

int(ds) == IntOfFrom(ds, 1, 0)

\* str(n) for n >= 0
RECURSIVE str(_)
str(n) ==
    IF n < 10 THEN <<DigitSeq[n + 1]>>
    ELSE str(n \div 10) \o <<DigitSeq[(n % 10) + 1]>>

\* the match of \d+ at index i: the numeral stops at the decimal point
NumeralEnd_integer_only(s, i) == RunEnd(s, i, Digits)

\* the match of \d+(?:\.\d+)? at index i: the index after it, or i if none
NumeralEnd(s, i) ==
    LET numeral(a, b) ==
            IF a = i THEN i
            ELSE IF a <= Len(s) /\ s[a] = "." /\ b > a + 1 THEN b ELSE a
        whole(a) == numeral(a, RunEnd(s, a + 1, Digits))
    IN  whole(RunEnd(s, i, Digits))

----------------------------------------------------------------------------
(* Normalizer: MathematicalAccuracyMetric._normalize_mathematical_answer   *)

prefixes_to_remove ==
    << <<"a","n","s","w","e","r",":">>,
       <<"s","o","l","u","t","i","o","n",":">>,
       <<"r","e","s","u","l","t",":">>,
       <<"t","h","e"," ","a","n","s","w","e","r"," ","i","s">>,
       <<"f","i","n","a","l"," ","a","n","s","w","e","r",":">> >>

\* the loop over prefixes_to_remove, from the k-th prefix on: it has no
\* break, every prefix is tried in turn on what the earlier ones left
RECURSIVE RemovePrefixes(_, _)
RemovePrefixes(s, k) ==
    IF k > Len(prefixes_to_remove) THEN s
    ELSE LET p == prefixes_to_remove[k]
         IN  RemovePrefixes(IF startswith(s, p)
                            THEN strip(From(s, Len(p) + 1))
                            ELSE s, k + 1)

symbol_replacements ==
    << << <<"DEG">>,      <<" ","d","e","g","r","e","e","s">> >>,
       << <<"ANGLE">>,    <<"a","n","g","l","e"," ">> >>,
       << <<"TRIANGLE">>, <<"t","r","i","a","n","g","l","e"," ">> >>,
       << <<"PI">>,       <<"p","i">> >>,
       << <<"SQRT">>,     <<"s","q","r","t">> >>,
       << <<"SUP2">>,     <<"^","2">> >>,
       << <<"SUP3">>,     <<"^","3">> >>,
       << <<"QUARTER">>,  <<"1","/","4">> >>,
       << <<"HALF">>,     <<"1","/","2">> >>,
       << <<"THREEQ">>,   <<"3","/","4">> >>,
       << <<"INF">>,      <<"i","n","f","i","n","i","t","y">> >> >>

\* `for old, new in table.items(): text = text.replace(old, new)`, from the
\* k-th entry on (a dict keeps its insertion order)
RECURSIVE ReplaceAll(_, _, _)
ReplaceAll(s, table, k) ==
    IF k > Len(table) THEN s
    ELSE ReplaceAll(replace(s, table[k][1], table[k][2]), table, k + 1)

NoMatch == [ok |-> FALSE]

\* (\d+)\s+(\d+)/(\d+) matched at index i
MixedAt(s, i) ==
    LET a == RunEnd(s, i, Digits)
        b == RunEnd(s, a, Whitespace)
        c == RunEnd(s, b, Digits)
        d == RunEnd(s, c + 1, Digits)
    IN  IF a > i /\ b > a /\ c > b /\ c <= Len(s) /\ s[c] = "/" /\ d > c + 1
        THEN [ok |-> TRUE, whole |-> SubSeq(s, i, a - 1),
              num |-> SubSeq(s, b, c - 1), den |-> SubSeq(s, c + 1, d - 1),
              end |-> d]
        ELSE NoMatch

convert_mixed(m) ==
    str(int(m.whole) * int(m.den) + int(m.num)) \o <<"/">> \o str(int(m.den))

RECURSIVE SubMixed(_, _)
SubMixed(s, i) ==
    IF i > Len(s) THEN <<>>
    ELSE LET sub(m) == IF m.ok THEN convert_mixed(m) \o SubMixed(s, m.end)
                       ELSE <<s[i]>> \o SubMixed(s, i + 1)
         IN  sub(MixedAt(s, i))

\* (\d+)\s*/\s*(\d+) matched at index i
FractionAt(s, i) ==
    LET a == RunEnd(s, i, Digits)
        b == RunEnd(s, a, Whitespace)
        c == RunEnd(s, b + 1, Whitespace)
        d == RunEnd(s, c, Digits)
    IN  IF a > i /\ b <= Len(s) /\ s[b] = "/" /\ d > c
        THEN [ok |-> TRUE, num |-> SubSeq(s, i, a - 1),
              den |-> SubSeq(s, c, d - 1), end |-> d]
        ELSE NoMatch

RECURSIVE SubFraction(_, _)
SubFraction(s, i) ==
    IF i > Len(s) THEN <<>>
    ELSE LET sub(m) ==
                 IF m.ok THEN m.num \o <<"/">> \o m.den \o SubFraction(s, m.end)
                 ELSE <<s[i]>> \o SubFraction(s, i + 1)
         IN  sub(FractionAt(s, i))

normalize_fractions(text) == SubFraction(SubMixed(text, 1), 1)

\* (\d+(?:\.\d+)?)\s*% matched at index i
PercentAt(s, i) ==
    LET sign(a, b) ==
            IF a > i /\ b <= Len(s) /\ s[b] = "%"
            THEN [ok |-> TRUE, num |-> SubSeq(s, i, a - 1), end |-> b + 1]
            ELSE NoMatch
        number(a) == sign(a, RunEnd(s, a, Whitespace))
    IN  number(NumeralEnd(s, i))

RECURSIVE SubPercent(_, _)
SubPercent(s, i) ==
    IF i > Len(s) THEN <<>>
    ELSE LET sub(m) ==
                 IF m.ok
                 THEN m.num \o <<" ","p","e","r","c","e","n","t">>
                            \o SubPercent(s, m.end)
                 ELSE <<s[i]>> \o SubPercent(s, i + 1)
         IN  sub(PercentAt(s, i))

normalize_percentages(text) == SubPercent(text, 1)

unit_mappings ==
    << << <<"c","m","^","3">>,         <<"c","u","b","i","c"," ","c","m">> >>,
       << <<"c","m","SUP3">>,          <<"c","u","b","i","c"," ","c","m">> >>,
       << <<"m","^","2">>,             <<"s","q","u","a","r","e"," ","m">> >>,
       << <<"m","SUP2">>,              <<"s","q","u","a","r","e"," ","m">> >>,
       << <<"k","g">>,                 <<"k","i","l","o","g","r","a","m","s">> >>,
       << <<"l","i","t","r","e","s">>, <<"l","i","t","e","r","s">> >>,
       << <<"m","i","n","s">>,         <<"m","i","n","u","t","e","s">> >>,
       << <<"m","i","n">>,             <<"m","i","n","u","t","e","s">> >> >>

normalize_units(text) == ReplaceAll(text, unit_mappings, 1)

\* re.sub(r"\s+", " ", s), scanning from index i
RECURSIVE CollapseSpaces(_, _)
CollapseSpaces(s, i) ==
    IF i > Len(s) THEN <<>>
    ELSE IF s[i] \in Whitespace
         THEN <<" ">> \o CollapseSpaces(s, RunEnd(s, i, Whitespace))
         ELSE <<s[i]>> \o CollapseSpaces(s, i + 1)

normalize_mathematical_answer(answer) ==
    IF answer = None \/ answer = <<>> THEN <<>>
    ELSE LET \* lines 102-114
             unprefixed(lowered) == RemovePrefixes(lowered, 1)
             \* lines 117-132
             symbols(stripped) == ReplaceAll(stripped, symbol_replacements, 1)
             \* lines 135-141
             units(replaced) ==
                 normalize_units(
                     normalize_percentages(normalize_fractions(replaced)))
             \* lines 144-145
             cleaned(normalized) ==
                 strip_chars(CollapseSpaces(normalized, 1),
                             Punctuation \cup {" "})
         IN  cleaned(units(symbols(unprefixed(strip(lower(answer))))))

----------------------------------------------------------------------------
(* Floats.  A score is the double nearest to the fraction n/d, moved by e   *)
(* (-1, 0 or 1) units in the last place where a float addition rounds off   *)
(* the decimal; doubles are compared by the fraction first, then by e.      *)
(* The numeral tests of the scorer are computed on the exact fractions,     *)
(* which decide as the doubles do except on an exact tie with the bound.    *)

RECURSIVE GCD(_, _)
GCD(a, b) == IF b = 0 THEN a ELSE GCD(b, a % b)

Num(n, d) == [n |-> n \div GCD(n, d), d |-> d \div GCD(n, d), e |-> 0]

Lt(a, b) == a.n * b.d < b.n * a.d \/ (a.n * b.d = b.n * a.d /\ a.e < b.e)

Ge(a, b) == ~Lt(a, b)

\* max(a, b) of Python: the first argument unless the second is greater
max(a, b) == IF Lt(a, b) THEN b ELSE a

\* min(a, b) of Python: the first argument unless the second is smaller
min(a, b) == IF Lt(b, a) THEN b ELSE a

RECURSIVE Pow10(_)
Pow10(k) == IF k = 0 THEN 1 ELSE 10 * Pow10(k - 1)

\* float(numeral) for a match of \d+(?:\.\d+)?
float(numeral) ==
    LET value(dot) ==
            IF dot > Len(numeral) THEN Num(int(numeral), 1)
            ELSE Num(int(SubSeq(numeral, 1, dot - 1) \o From(numeral, dot + 1)),
                     Pow10(Len(numeral) - dot))
    IN  value(RunEnd(numeral, 1, Digits))

\* re.findall(r"\d+(?:\.\d+)?", s), scanning from index i
RECURSIVE FindNumerals(_, _)
FindNumerals(s, i) ==
    IF i > Len(s) THEN <<>>
    ELSE LET found(a) ==
                 IF a > i THEN <<SubSeq(s, i, a - 1)>> \o FindNumerals(s, a)
                 ELSE FindNumerals(s, i + 1)
         IN  found(NumeralEnd(s, i))

findall_numerals(s) == FindNumerals(s, 1)

\* str.split(), scanning from index i: the runs of non-whitespace
RECURSIVE SplitFrom(_, _)
SplitFrom(s, i) ==
    LET a == RunEnd(s, i, Whitespace)
        b == RunEnd(s, a, {s[k] : k \in 1..Len(s)} \ Whitespace)
    IN  IF a > Len(s) THEN <<>>
        ELSE <<SubSeq(s, a, b - 1)>> \o SplitFrom(s, b)

\* set(s.split())
tokens(s) == LET set(t) == {t[k] : k \in 1..Len(t)} IN set(SplitFrom(s, 1))

----------------------------------------------------------------------------
(* SimilarityScorer: MathematicalAccuracyMetric._calculate_similarity_score *)

\* the numeral rule with the relative difference tested before the
\* absolute one
numeral_rule_relative_first(expected_nums, actual_nums) ==
    IF expected_nums = <<>> \/ actual_nums = <<>> THEN "fall"
    ELSE LET rule(a, b, diff, top) ==
                 IF top.n = 0 THEN "zero_division"
                 ELSE IF diff * top.d * 20 < top.n * a.d * b.d THEN "near"
                 ELSE IF diff * 1000 < a.d * b.d THEN "close"
                 ELSE "fall"
             compare(a, b) ==
                 rule(a, b,
                      IF Lt(a, b) THEN b.n * a.d - a.n * b.d
                                  ELSE a.n * b.d - b.n * a.d,
                      max(a, b))
         IN  compare(float(expected_nums[1]), float(actual_nums[1]))

\* the numeral rule on the last numeral of each string
numeral_rule_last_numerals(expected_nums, actual_nums) ==
    IF expected_nums = <<>> \/ actual_nums = <<>> THEN "fall"
    ELSE LET rule(a, b, diff, top) ==
                 IF diff * 1000 < a.d * b.d THEN "close"
                 ELSE IF top.n = 0 THEN "zero_division"
                 ELSE IF diff * top.d * 20 < top.n * a.d * b.d THEN "near"
                 ELSE "fall"
             compare(a, b) ==
                 rule(a, b,
                      IF Lt(a, b) THEN b.n * a.d - a.n * b.d
                                  ELSE a.n * b.d - b.n * a.d,
                      max(a, b))
         IN  compare(float(expected_nums[Len(expected_nums)]),
                     float(actual_nums[Len(actual_nums)]))

\* lines 202-215: the numeral rule; "fall" when it returns nothing,
\* "zero_division" when line 210 divides by 0.0 and line 214 catches the
\* ZeroDivisionError
numeral_rule(expected_nums, actual_nums) ==
    IF expected_nums = <<>> \/ actual_nums = <<>> THEN "fall"
    ELSE LET rule(a, b, diff, top) ==
                 IF diff * 1000 < a.d * b.d THEN "close"
                 ELSE IF top.n = 0 THEN "zero_division"
                 \* |a-b| / max(a,b) < 0.05
                 ELSE IF diff * top.d * 20 < top.n * a.d * b.d THEN "near"
                 ELSE "fall"
             compare(a, b) ==
                 rule(a, b,
                      IF Lt(a, b) THEN b.n * a.d - a.n * b.d
                                  ELSE a.n * b.d - b.n * a.d,
                      max(a, b))
         IN  compare(float(expected_nums[1]), float(actual_nums[1]))

\* lines 217-229: the token-set Jaccard similarity
token_similarity(expected, actual) ==
    LET jaccard(expected_tokens, actual_tokens) ==
            IF expected_tokens = {} /\ actual_tokens = {} THEN Num(1, 1)
            ELSE IF expected_tokens = {} \/ actual_tokens = {} THEN Num(0, 1)
            ELSE Num(Cardinality(expected_tokens \cap actual_tokens),
                     Cardinality(expected_tokens \cup actual_tokens))
    IN  jaccard(tokens(expected), tokens(actual))

\* the numeral rule on the numerals of the two strings (lines 199-215)
numeral_outcome(expected, actual) ==
    numeral_rule(findall_numerals(expected), findall_numerals(actual))

\* the ladder with the substring rule in one direction only
similarity_rule_one_way(expected, actual) ==
    IF expected = actual THEN "exact"
    ELSE IF contains(actual, expected) THEN "substring"
    ELSE LET numerals(r) ==
                 IF r \in {"fall", "zero_division"} THEN "tokens" ELSE r
         IN  numerals(numeral_outcome(expected, actual))

\* the ladder with the numeral rule before the substring rule
similarity_rule_numerals_before_substring(expected, actual) ==
    IF expected = actual THEN "exact"
    ELSE LET substring(r) ==
                 IF r \in {"close", "near"} THEN r
                 ELSE IF contains(actual, expected) \/ contains(expected, actual)
                      THEN "substring"
                 ELSE "tokens"
         IN  substring(numeral_outcome(expected, actual))

\* the rule of the ladder that decides the score of (expected, actual)
similarity_rule(expected, actual) ==
    IF expected = actual THEN "exact"
    ELSE IF contains(actual, expected) \/ contains(expected, actual)
         THEN "substring"
    ELSE LET numerals(r) ==
                 IF r \in {"fall", "zero_division"} THEN "tokens" ELSE r
         IN  numerals(numeral_outcome(expected, actual))

\* the ladder with the numeral comparison before the equality test
calculate_similarity_score_numerals_first(expected, actual) ==
    LET score(rule) ==
            CASE rule = "exact"     -> Num(1, 1)
              [] rule = "substring" -> Num(9, 10)
              [] rule = "close"     -> Num(95, 100)
              [] rule = "near"      -> Num(8, 10)
              [] rule = "tokens"    -> token_similarity(expected, actual)
    IN  score(IF numeral_outcome(expected, actual) = "close" THEN "close"
              ELSE similarity_rule(expected, actual))

calculate_similarity_score(expected, actual) ==
    LET score(rule) ==
            CASE rule = "exact"     -> Num(1, 1)
              [] rule = "substring" -> Num(9, 10)
              [] rule = "close"     -> Num(95, 100)
              [] rule = "near"      -> Num(8, 10)
              [] rule = "tokens"    -> token_similarity(expected, actual)
    IN  score(similarity_rule(expected, actual))

----------------------------------------------------------------------------
(* Extractor: MathematicalAccuracyMetric._extract_answer_from_response      *)

\* ([^\n\r]+) at index k: the index after the group, or k if it is empty
GroupEnd(s, k) ==
    RunEnd(s, k, {s[j] : j \in 1..Len(s)} \ LineBreaks)

\* \s*([^\n\r]+) at index p: where the group starts (the greedy \s* gives
\* characters back until the group has one), or 0
RECURSIVE SpacesThenGroup(_, _, _)
SpacesThenGroup(s, p, k) ==
    IF k < p THEN 0
    ELSE IF GroupEnd(s, k) > k THEN k
    ELSE SpacesThenGroup(s, p, k - 1)

\* sep?\s*([^\n\r]+) at index p: the separator is taken if that matches
SepThenGroup(s, p, sep) ==
    LET group(with) ==
            IF p <= Len(s) /\ s[p] = sep /\ with > 0 THEN with
            ELSE SpacesThenGroup(s, p, RunEnd(s, p, Whitespace))
    IN  group(SpacesThenGroup(s, p + 1, RunEnd(s, p + 1, Whitespace)))

\* \s*sep?\s*([^\n\r]+) at index p, the first \s* ending at k or before
RECURSIVE TailGroup(_, _, _, _)
TailGroup(s, p, k, sep) ==
    IF k < p THEN 0
    ELSE LET group(g) == IF g > 0 THEN g ELSE TailGroup(s, p, k - 1, sep)
         IN  group(SepThenGroup(s, k, sep))

\* group 1 of keyword\s*sep?\s*([^\n\r]+) when p is the index after the
\* keyword, or NoMatch
TailMatch(s, p, sep) ==
    LET match(k) ==
            IF k > 0
            THEN [ok |-> TRUE, group |-> SubSeq(s, k, GroupEnd(s, k) - 1)]
            ELSE NoMatch
    IN  match(TailGroup(s, p, RunEnd(s, p, Whitespace), sep))

KwAnswer == <<"a","n","s","w","e","r">>
KwFinal == <<"f","i","n","a","l">>
KwSolution == <<"s","o","l","u","t","i","o","n">>
KwResult == <<"r","e","s","u","l","t">>
KwIs == <<"i","s">>
KwThe == <<"t","h","e">>
KwTherefore == <<"t","h","e","r","e","f","o","r","e">>
KwThus == <<"t","h","u","s">>

\* word\s+ at index i: the index after it, or 0
WordSpaces(low, i, word) ==
    LET spaces(a, b) == IF OccursAt(low, word, i) /\ b > a THEN b ELSE 0
    IN  spaces(i + Len(word), RunEnd(low, i + Len(word), Whitespace))

\* (?:final\s+)?answer
AnswerLit(low, i) ==
    LET answer(f) ==
            IF f > 0 /\ OccursAt(low, KwAnswer, f) THEN f + Len(KwAnswer)
            ELSE IF OccursAt(low, KwAnswer, i) THEN i + Len(KwAnswer)
            ELSE 0
    IN  answer(WordSpaces(low, i, KwFinal))

\* (?:solution|result)\s+is
SolutionIsAt(low, i) ==
    LET is(w) == IF w > 0 /\ OccursAt(low, KwIs, w) THEN w + Len(KwIs) ELSE 0
        word(a) == is(IF a > 0 THEN a ELSE WordSpaces(low, i, KwResult))
    IN  word(WordSpaces(low, i, KwSolution))

\* (?:the\s+)?(?:solution|result)\s+is
SolutionLit(low, i) ==
    LET solution(t, with) ==
            IF t > 0 /\ with > 0 THEN with ELSE SolutionIsAt(low, i)
        the(t) == solution(t, IF t > 0 THEN SolutionIsAt(low, t) ELSE 0)
    IN  the(WordSpaces(low, i, KwThe))

ThereforeLit(low, i) ==
    IF OccursAt(low, KwTherefore, i) THEN i + Len(KwTherefore) ELSE 0

ThusLit(low, i) == IF OccursAt(low, KwThus, i) THEN i + Len(KwThus) ELSE 0

\* the literal part of the k-th of answer_patterns matched at index i of
\* the lowercased text: the index after it, or 0
LitEnd(k, low, i) ==
    CASE k = 1 -> AnswerLit(low, i)
      [] k = 2 -> SolutionLit(low, i)
      [] k = 3 -> ThereforeLit(low, i)
      [] k = 4 -> ThusLit(low, i)

\* what follows the keyword in the k-th pattern before the group: :? or ,?
Separator(k) == IF k <= 2 THEN ":" ELSE ","

\* re.search(answer_patterns[k], s, re.IGNORECASE), from index i on: the
\* match at the first index that has one
SearchFrom(s, i, k) ==
    LET literal(p) ==
            IF p > 0 THEN TailMatch(s, p, Separator(k)) ELSE NoMatch
        first(low, hits) ==
            IF hits = {} THEN NoMatch
            ELSE literal(LitEnd(k, low,
                                CHOOSE j \in hits : \A h \in hits : j <= h))
        scan(low) ==
            first(low, {j \in i..Len(s) : literal(LitEnd(k, low, j)).ok})
    IN  scan(lower(s))

\* the loop over answer_patterns taken from the last pattern to the first
RECURSIVE pattern_match_last_rule_first(_, _)
pattern_match_last_rule_first(response, k) ==
    IF k > 4 THEN NoMatch
    ELSE LET match(m) ==
                 IF m.ok
                 THEN [ok |-> TRUE, group |-> strip(m.group), rule |-> 5 - k]
                 ELSE pattern_match_last_rule_first(response, k + 1)
         IN  match(SearchFrom(response, 1, 5 - k))

\* the loop over answer_patterns, from the k-th on: the first pattern that
\* matches anywhere gives match.group(1).strip()
RECURSIVE pattern_match(_, _)
pattern_match(response, k) ==
    IF k > 4 THEN NoMatch
    ELSE LET match(m) ==
                 IF m.ok
                 THEN [ok |-> TRUE, group |-> strip(m.group), rule |-> k]
                 ELSE pattern_match(response, k + 1)
         IN  match(SearchFrom(response, 1, k))

\* str.split("\n"), scanning from index i
RECURSIVE SplitLines(_, _)
SplitLines(s, i) ==
    LET line(a) ==
            IF a > Len(s) THEN <<SubSeq(s, i, Len(s))>>
            ELSE <<SubSeq(s, i, a - 1)>> \o SplitLines(s, a + 1)
    IN  line(RunEnd(s, i, {s[k] : k \in 1..Len(s)} \ {"\n"}))

MaxAnswerLineLen == 100

\* the loop over reversed(lines), from line k down: the first line that
\* looks like an answer, or NoMatch
RECURSIVE LastAnswerLine(_, _)
LastAnswerLine(lines, k) ==
    IF k < 1 THEN NoMatch
    ELSE LET answer(line) ==
                 IF line # <<>> /\ ~endswith(line, <<"?">>)
                    /\ Len(line) < MaxAnswerLineLen
                 THEN [ok |-> TRUE, group |-> line]
                 ELSE LastAnswerLine(lines, k - 1)
         IN  answer(strip(lines[k]))

extract_answer_from_response(response) ==
    IF response = None \/ response = <<>> THEN <<>>
    ELSE LET \* lines 91-94
             fallback(last) == IF last.ok THEN last.group ELSE strip(response)
             \* lines 86-89
             reversed(lines) == fallback(LastAnswerLine(lines, Len(lines)))
             \* lines 82-85
             patterns(m) == IF m.ok THEN m.group
                            ELSE reversed(SplitLines(strip(response), 1))
         IN  patterns(pattern_match(response, 1))

----------------------------------------------------------------------------
(* SemanticJudge: MathematicalAccuracyMetric._llm_evaluate_math_equivalence *)
(* The reply of client.chat.completions.create is one of                    *)
(*   [kind |-> "raise"]                the call raised (network error, API  *)
(*                                     error, a timeout of the client)      *)
(*   [kind |-> "reply", content |-> c] a completion whose message content   *)
(*                                     is the string c, or None             *)

\* the judge's score with a failed call counted as half a match
judge_score_half_on_failure(reply) ==
    IF reply.kind = "raise" \/ reply.content = None THEN Num(5, 10)
    ELSE LET score(found) ==
                 IF found = <<>> THEN Num(5, 10)
                 ELSE min(max(float(found[1]), Num(0, 1)), Num(1, 1))
         IN  score(findall_numerals(strip(reply.content)))

\* the judge's score taken as the numeral of the reply, not clamped
judge_score_unclamped(reply) ==
    IF reply.kind = "raise" \/ reply.content = None THEN Num(0, 1)
    ELSE LET score(found) ==
                 IF found = <<>> THEN Num(0, 1) ELSE float(found[1])
         IN  score(findall_numerals(strip(reply.content)))

\* lines 264-269: the score read from a reply; every exception gives 0.0
judge_score(reply) ==
    IF reply.kind = "raise" \/ reply.content = None THEN Num(0, 1)
    ELSE LET score(found) ==
                 IF found = <<>> THEN Num(0, 1)
                 ELSE min(max(float(found[1]), Num(0, 1)), Num(1, 1))
         IN  score(findall_numerals(strip(reply.content)))

\* f"{x:.2f}" as a number of hundredths; a tie goes the way the double is
\* off the decimal, an exact tie to the even hundredth
Round2(x) ==
    LET round(q, r) ==
            IF 2 * r > x.d \/ (2 * r = x.d /\ x.e > 0) THEN q + 1
            ELSE IF 2 * r < x.d \/ x.e < 0 THEN q
            ELSE IF q % 2 = 0 THEN q ELSE q + 1
    IN  round((x.n * 100) \div x.d, (x.n * 100) % x.d)

\* f"{v}": None prints as the word None
Format(v) == IF v = None THEN <<"N","o","n","e">> ELSE v

\* MathematicalAccuracyMetric._generate_reason: the band, and the three
\* values the text interpolates
generate_reason(expected, actual, score) ==
    [band     |-> IF Ge(score, Num(95, 100)) THEN "Excellent match"
                  ELSE IF Ge(score, Num(8, 10)) THEN "Good match"
                  ELSE IF Ge(score, Num(5, 10)) THEN "Partial match"
                  ELSE "Poor match",
     score    |-> Round2(score),
     expected |-> Format(expected),
     got      |-> Format(actual)]

----------------------------------------------------------------------------
(* MathSolutionCompletenessMetric                                           *)

answer_indicators ==
    {<<"a","n","s","w","e","r">>,
     <<"s","o","l","u","t","i","o","n">>,
     <<"r","e","s","u","l","t">>,
     <<"t","h","e","r","e","f","o","r","e">>,
     <<"t","h","u","s">>,
     <<"f","i","n","a","l">>,
     <<"c","o","n","c","l","u","s","i","o","n">>,
     <<"e","q","u","a","l","s">>,
     <<"=">>,
     <<"i","s">>}

step_indicators ==
    {<<"s","t","e","p">>,
     <<"f","i","r","s","t">>,
     <<"s","e","c","o","n","d">>,
     <<"n","e","x","t">>,
     <<"t","h","e","n">>,
     <<"n","o","w">>,
     <<"c","a","l","c","u","l","a","t","e">>,
     <<"s","u","b","s","t","i","t","u","t","e">>,
     <<"s","o","l","v","e">>,
     <<"s","i","m","p","l","i","f","y">>,
     <<"f","a","c","t","o","r">>}

explanation_indicators ==
    {<<"b","e","c","a","u","s","e">>,
     <<"s","i","n","c","e">>,
     <<"d","u","e"," ","t","o">>,
     <<"r","e","a","s","o","n">>,
     <<"e","x","p","l","a","i","n">>,
     <<"w","h","y">>,
     <<"h","o","w">>,
     <<"m","e","t","h","o","d">>,
     <<"a","p","p","r","o","a","c","h">>,
     <<"c","o","n","c","e","p","t">>,
     <<"p","r","i","n","c","i","p","l","e">>}

reasoning_indicators ==
    {<<"t","h","e","o","r","e","m">>,
     <<"f","o","r","m","u","l","a">>,
     <<"e","q","u","a","t","i","o","n">>,
     <<"p","r","o","p","e","r","t","y">>,
     <<"r","u","l","e">>,
     <<"l","a","w">>,
     <<"i","d","e","n","t","i","t","y">>,
     <<"r","e","l","a","t","i","o","n","s","h","i","p">>,
     <<"p","a","t","t","e","r","n">>}

\* the indicators looked for in the text as it is written
has_any_case_sensitive(text, indicators) ==
    \E k \in indicators : contains(text, k)

\* any(indicator in text.lower() for indicator in indicators)
has_any(text, indicators) == \E k \in indicators : contains(lower(text), k)

\* x + w on doubles, for the sums measure() forms: the exact sum, marked
\* where the double sum is one unit above or below the double of the decimal
FloatAddAbove ==
    {<<Num(2, 10), Num(1, 10)>>, <<Num(4, 10), Num(2, 10)>>,
     <<[Num(6, 10) EXCEPT !.e = 1], Num(1, 10)>>,
     <<Num(185, 100), Num(2, 10)>>, <<Num(4485, 100), Num(2, 10)>>,
     <<Num(15, 1000), Num(2, 10)>>}

FloatAddBelow ==
    {<<Num(7, 10), Num(1, 10)>>, <<Num(7, 10), Num(2, 10)>>,
     <<[Num(9, 10) EXCEPT !.e = -1], Num(1, 10)>>,
     <<Num(585, 1000), Num(2, 10)>>, <<Num(5485, 10000), Num(2, 10)>>,
     <<Num(1485, 100), Num(2, 10)>>}

FloatAdd(x, w) ==
    [Num(x.n * w.d + w.n * x.d, x.d * w.d) EXCEPT
        !.e = IF <<x, w>> \in FloatAddAbove THEN 1
              ELSE IF <<x, w>> \in FloatAddBelow THEN -1 ELSE 0]

\* lines 305-326: the weighted sum and the components, in the order of the
\* four checks
completeness(actual_output) ==
    LET add(score, has, weight) ==
            IF has THEN FloatAdd(score, weight) ELSE score
        checks(c1, c2, c3, c4) ==
            [score      |-> add(add(add(add(Num(0, 1), c1, Num(4, 10)),
                                        c2, Num(3, 10)),
                                    c3, Num(2, 10)),
                                c4, Num(1, 10)),
             components |-> (IF c1 THEN <<"final answer">> ELSE <<>>)
                         \o (IF c2 THEN <<"solution steps">> ELSE <<>>)
                         \o (IF c3 THEN <<"explanation">> ELSE <<>>)
                         \o (IF c4 THEN <<"mathematical reasoning">> ELSE <<>>)]
    IN  checks(has_any(actual_output, answer_indicators),
               has_any(actual_output, step_indicators),
               has_any(actual_output, explanation_indicators),
               has_any(actual_output, reasoning_indicators))

\* line 332: the reason of the completeness metric
completeness_reason(c) ==
    [score |-> Round2(c.score),
     contains |-> IF c.components # <<>> THEN c.components
                  ELSE <<"minimal components">>]

----------------------------------------------------------------------------
(* MathConfidenceMetric                                                     *)

KwConfidence == <<"c","o","n","f","i","d","e","n","c","e">>
KwConfident == <<"c","o","n","f","i","d","e","n","t">>
KwCertainty == <<"c","e","r","t","a","i","n","t","y">>

\* keyword\s*:?\s*(\d+(?:\.\d+)?) matched at index i: group 1, or NoMatch
KeywordNumberAt(low, i, keyword) ==
    LET number(c, d) ==
            IF OccursAt(low, keyword, i) /\ d > c
            THEN [ok |-> TRUE, group |-> SubSeq(low, c, d - 1)]
            ELSE NoMatch
        spaces(c) == number(c, NumeralEnd(low, c))
        colon(a) ==
            spaces(RunEnd(low, IF a <= Len(low) /\ low[a] = ":" THEN a + 1
                               ELSE a,
                          Whitespace))
    IN  colon(RunEnd(low, i + Len(keyword), Whitespace))

\* (\d+(?:\.\d+)?)\s*%?\s*confident matched at index i
NumberConfidentAt(low, i) ==
    LET word(a, d) ==
            IF a > i /\ OccursAt(low, KwConfident, d)
            THEN [ok |-> TRUE, group |-> SubSeq(low, i, a - 1)]
            ELSE NoMatch
        sign(a, b) ==
            word(a, RunEnd(low, IF b <= Len(low) /\ low[b] = "%" THEN b + 1
                                ELSE b,
                           Whitespace))
        number(a) == sign(a, RunEnd(low, a, Whitespace))
    IN  number(NumeralEnd(low, i))

\* the k-th of confidence_patterns matched at index i
ConfidenceAt(k, low, i) ==
    CASE k = 1 -> KeywordNumberAt(low, i, KwConfidence)
      [] k = 2 -> NumberConfidentAt(low, i)
      [] k = 3 -> KeywordNumberAt(low, i, KwCertainty)

\* re.search(confidence_patterns[k], low), from index i on
RECURSIVE SearchConfidence(_, _, _)
SearchConfidence(low, i, k) ==
    IF i > Len(low) THEN NoMatch
    ELSE LET search(m) == IF m.ok THEN m ELSE SearchConfidence(low, i + 1, k)
         IN  search(ConfidenceAt(k, low, i))

\* value / 100 on doubles: the quotients that are not the double of the
\* decimal quotient (none for the numerals of ConfidenceOutputs)
FloatDivAbove == {}

FloatDivBelow == {}

FloatDiv100(v) ==
    [Num(v.n, v.d * 100) EXCEPT
        !.e = IF v \in FloatDivAbove THEN 1
              ELSE IF v \in FloatDivBelow THEN -1 ELSE 0]

\* every value taken for a percentage
confidence_value_always_percent(group) == FloatDiv100(float(group))

\* lines 453-457: the value of a match
confidence_value(group) ==
    LET scaled(value) ==
            IF Lt(Num(1, 1), value) THEN FloatDiv100(value) ELSE value
    IN  scaled(float(group))

\* the loop over confidence_patterns, from the k-th on; NoMatch stands for
\* the None returned when no pattern matches
RECURSIVE extract_confidence_from(_, _)
extract_confidence_from(low, k) ==
    IF k > 3 THEN NoMatch
    ELSE LET match(m) ==
                 IF m.ok
                 THEN [ok |-> TRUE, value |-> confidence_value(m.group),
                       rule |-> k]
                 ELSE extract_confidence_from(low, k + 1)
         IN  match(SearchConfidence(low, 1, k))

extract_confidence(text) == extract_confidence_from(lower(text), 1)

----------------------------------------------------------------------------
(* Inputs.  A text is a concatenation of at most so many fragments of a     *)
(* small vocabulary, or None.                                               *)

\* the concatenations of at most n fragments
RECURSIVE Texts(_, _)
Texts(fragments, n) ==
    IF n = 0 THEN {<<>>}
    ELSE LET longer(shorter) ==
                 shorter \cup {t \o f : t \in shorter, f \in fragments}
         IN  longer(Texts(fragments, n - 1))

MaxActualParts == 1

ExpectedAnswers ==
    {<<"4">>, <<"2","0">>, <<"x"," ","="," ","4">>, <<>>, None}

AccuracyFragments ==
    {<<"4">>, <<"2","1">>, <<"x"," ","="," ","5">>,
     <<"A","n","s","w","e","r",":"," ">>}

CompletenessFragments ==
    {<<"T","h","e","r","e","f","o","r","e",","," ","x"," ","="," ","5","."," ">>,
     <<"S","t","e","p"," ","1","."," ">>,
     <<"B","e","c","a","u","s","e"," ">>,
     <<"f","o","r","m","u","l","a">>}

ConfidenceFragments ==
    {<<"c","o","n","f","i","d","e","n","c","e",":"," ","0",".","5">>,
     <<"8","5","%"," ","c","o","n","f","i","d","e","n","t">>,
     <<"c","e","r","t","a","i","n","t","y",":"," ","1">>,
     <<"4">>}

Kinds == {"accuracy", "completeness", "confidence"}

ActualOutputs(k) ==
    Texts(CASE k = "accuracy"     -> AccuracyFragments
            [] k = "completeness" -> CompletenessFragments
            [] k = "confidence"   -> ConfidenceFragments,
          MaxActualParts) \cup {None}

\* the LLMTestCase objects a metric of kind k is given
TestCases(k) ==
    [expected_output : IF k = "accuracy" THEN ExpectedAnswers ELSE {<<"4">>},
     actual_output   : ActualOutputs(k)]

\* two test cases with different results, for callers that share a metric
SharedCases(k) ==
    {tc \in TestCases(k) :
       /\ tc.expected_output = <<"4">>
       /\ tc.actual_output \in
            CASE k = "accuracy"     -> {<<"4">>, <<"2","1">>}
              [] k = "completeness" -> {<<"S","t","e","p"," ","1","."," ">>,
                                        <<"f","o","r","m","u","l","a">>}
              [] k = "confidence"   -> {<<"4">>, <<"c","e","r","t","a","i","n",
                                                   "t","y",":"," ","1">>}}

\* the default thresholds of the three constructors
Thresholds == {Num(9, 10), Num(7, 10)}

\* the configurations a metric of kind k is constructed with
Configs(k) ==
    IF k = "accuracy"
    THEN [threshold : Thresholds, strict_matching : BOOLEAN,
          include_reason : BOOLEAN, use_llm_evaluation : BOOLEAN]
    ELSE [threshold : Thresholds, strict_matching : {FALSE},
          include_reason : BOOLEAN, use_llm_evaluation : {FALSE}]

\* message contents the judge model may answer with
JudgeContents ==
    {<<"0",".","9">>, <<"0",".","5">>, <<"n","/","a">>, None}

\* what client.chat.completions.create may do when it does anything
JudgeReplies ==
    {[kind |-> "raise"]} \cup [kind : {"reply"}, content : JudgeContents]

Callers == {1, 2}

\* Optional[...] values
Nothing == [some |-> FALSE]

Some(v) == [some |-> TRUE, v |-> v]

----------------------------------------------------------------------------
(* The locals of one measure() call.                                        *)

NoLocals ==
    [actual_clean |-> <<>>, det |-> Num(0, 1), score |-> Num(0, 1),
     llm_score |-> Nothing, judge_calls |-> 0, reply |-> Nothing,
     components |-> <<>>, confidence |-> NoMatch, raised |-> FALSE]

\* measure() scoring by similarity whether strict or not
accuracy_locals_always_similarity(tc, strict_matching) ==
    LET locals(actual_clean, score) ==
            [NoLocals EXCEPT !.actual_clean = actual_clean,
                             !.det = score, !.score = score]
        cleaned(actual_clean) ==
            locals(actual_clean,
                   calculate_similarity_score(
                      normalize_mathematical_answer(tc.expected_output),
                      normalize_mathematical_answer(actual_clean)))
    IN  cleaned(extract_answer_from_response(tc.actual_output))

\* MathematicalAccuracyMetric.measure, lines 36-52: the deterministic part
accuracy_locals(tc, strict_matching) ==
    LET locals(actual_clean, score) ==
            [NoLocals EXCEPT !.actual_clean = actual_clean,
                             !.det = score, !.score = score]
        \* lines 47-52
        scored(actual_clean, expected_normalized, actual_normalized) ==
            locals(actual_clean,
                   IF strict_matching
                   THEN IF expected_normalized = actual_normalized
                        THEN Num(1, 1) ELSE Num(0, 1)
                   ELSE calculate_similarity_score(expected_normalized,
                                                   actual_normalized))
        \* lines 43-44
        cleaned(actual_clean) ==
            scored(actual_clean,
                   normalize_mathematical_answer(tc.expected_output),
                   normalize_mathematical_answer(actual_clean))
    \* line 40
    IN  cleaned(extract_answer_from_response(tc.actual_output))

\* the judge consulted whenever it is enabled, whatever the score
needs_judge_whenever_enabled(cfg, score) == cfg.use_llm_evaluation

\* line 55: the judge is consulted (line 48 leaves the branch out when
\* strict, line 32 gives a client exactly when use_llm_evaluation)
needs_judge(cfg, score) ==
    ~cfg.strict_matching /\ Lt(score, Num(8, 10))
    /\ cfg.use_llm_evaluation

\* the judge's score taken in place of the deterministic one
final_score_of_judge(score, llm_score) == llm_score

\* line 59: score = max(score, llm_score)
final_score(score, llm_score) == max(score, llm_score)

\* MathSolutionCompletenessMetric.measure, lines 303-326; text.lower() of
\* None raises AttributeError
completeness_locals(tc) ==
    IF tc.actual_output = None THEN [NoLocals EXCEPT !.raised = TRUE]
    ELSE LET locals(c) ==
                 [NoLocals EXCEPT !.det = c.score, !.score = c.score,
                                  !.components = c.components]
         IN  locals(completeness(tc.actual_output))

\* MathConfidenceMetric.measure, lines 423-436; text.lower() of None raises
\* AttributeError
confidence_locals(tc) ==
    IF tc.actual_output = None THEN [NoLocals EXCEPT !.raised = TRUE]
    ELSE LET locals(c, score) ==
                 [NoLocals EXCEPT !.det = score, !.score = score,
                                  !.confidence = c]
             scored(c) ==
                 locals(c, IF c.ok
                           THEN min(FloatAdd(c.value, Num(2, 10)), Num(1, 1))
                           ELSE Num(5, 10))
         IN  scored(extract_confidence(tc.actual_output))

\* the body of measure() up to its first store or call
measure_locals(k, tc, cfg) ==
    CASE k = "accuracy"     -> accuracy_locals(tc, cfg.strict_matching)
      [] k = "completeness" -> completeness_locals(tc)
      [] k = "confidence"   -> confidence_locals(tc)

\* the reason a call of kind k on tc with locals l stores
reason_of(k, tc, l) ==
    CASE k = "accuracy" ->
           generate_reason(tc.expected_output, l.actual_clean, l.score)
      [] k = "completeness" ->
           completeness_reason([score |-> l.score, components |-> l.components])
      [] k = "confidence" ->
           IF l.confidence.ok
           THEN [text |-> "Confidence score provided",
                 confidence |-> l.confidence.value]
           ELSE [text |-> "No confidence score provided"]

\* score > self.threshold
passes_strictly(score, threshold) == Lt(threshold, score)

\* score >= self.threshold
passes(score, threshold) == Ge(score, threshold)

----------------------------------------------------------------------------
VARIABLES
    kind,     \* which metric class the instance is
    config,   \* the arguments of its constructor
    suite,    \* the test cases the callers measure, each with the locals
              \* that the body of measure() computes from it
    self,     \* the instance's score, success and reason attributes
    pc,       \* where each caller's measure() call is
    tcase,    \* the test case of each caller's call
    loc,      \* the locals of each caller's call
    ret,      \* what each caller's call returned, or that it raised
    seen,     \* what each caller read from the instance after its call
    answer,         \* the answer text given to the normalizer
    normalized,     \* its normal form
    renormalized,   \* the normal form of its normal form
    npc,            \* how far the normalizer has got
    bpc,            \* where the batch evaluation is
    actual_outputs, \* run_evaluation's list of solved outputs
    completed,      \* the outputs that were solved when the batch was cut off
    results,        \* what the batch evaluation returned to its caller
    sim,            \* a run of the similarity scorer on a pair of strings
    app,            \* the use cases, their repository and its document store
    box,            \* the dependency injection containers
    auth,           \* the authentication service
    tally           \* EvaluationRunner's summary of a batch's results

metric_vars == <<kind, config, suite, self, pc, tcase, loc, ret, seen>>

norm_vars == <<answer, normalized, renormalized, npc>>

batch_vars == <<bpc, actual_outputs, completed, results>>

svc_vars == <<sim, app, box, auth, tally>>

vars == <<metric_vars, norm_vars, batch_vars, svc_vars>>

NoCase == [expected_output |-> <<>>, actual_output |-> <<>>]

\* the attributes measure() sets, before its first call
NoSelf == [score |-> Nothing, success |-> Nothing, reason |-> Nothing]

\* the normalizer is not in use
NormIdle ==
    /\ answer = <<>>
    /\ normalized = <<>>
    /\ renormalized = <<>>
    /\ npc = "idle"

\* no batch is evaluated
BatchIdle ==
    /\ bpc = "idle"
    /\ actual_outputs = <<>>
    /\ completed = Nothing
    /\ results = Nothing

\* nothing is scored apart from a metric, no request is served
ServicesIdle ==
    /\ sim = "idle"
    /\ app = "idle"
    /\ box = "idle"
    /\ auth = "idle"
    /\ tally = "idle"

\* a metric of kind k constructed with configuration cfg, and the test
\* cases it will be given
Construct(k, cfg, cases) ==
    /\ kind = k
    /\ config = cfg
    /\ suite = [tc \in cases |-> measure_locals(k, tc, cfg)]
    /\ self = NoSelf
    /\ pc = [c \in Callers |-> "idle"]
    /\ tcase = [c \in Callers |-> NoCase]
    /\ loc = [c \in Callers |-> NoLocals]
    /\ ret = [c \in Callers |-> Nothing]
    /\ seen = [c \in Callers |-> Nothing]

InitMetric ==
    \E k \in Kinds : \E cfg \in Configs(k) : Construct(k, cfg, TestCases(k))

Init == InitMetric /\ NormIdle /\ BatchIdle /\ ServicesIdle

\* a caller enters measure(tc) with the locals l, to continue at p
Enter(c, tc, l, p) ==
    /\ pc[c] \in {"idle", "done", "raised"}
    /\ tcase' = [tcase EXCEPT ![c] = tc]
    /\ loc' = [loc EXCEPT ![c] = l]
    /\ pc' = [pc EXCEPT ![c] = p]
    /\ ret' = [ret EXCEPT ![c] = IF p = "raised" THEN Some("raised") ELSE Nothing]
    /\ seen' = [seen EXCEPT ![c] = Nothing]
    /\ UNCHANGED <<kind, config, suite, self, norm_vars, batch_vars, svc_vars>>

\* MathematicalAccuracyMetric.measure up to line 57: the deterministic score,
\* and the call of the judge if line 55 asks for it
BeginAccuracy(c) ==
    /\ kind = "accuracy"
    /\ \E tc \in DOMAIN suite :
         \E l \in {suite[tc]} :
            IF needs_judge(config, l.score)
            THEN Enter(c, tc, [l EXCEPT !.judge_calls = @ + 1], "judge_wait")
            ELSE Enter(c, tc, l, "store_score")

\* _llm_evaluate_math_equivalence comes back, the client having returned a
\* completion out of replies or raised (lines 256-269), and line 59 takes
\* the maximum
JudgeAnswersFrom(c, replies) ==
    /\ pc[c] = "judge_wait"
    /\ \E reply \in replies :
         \E llm_score \in {judge_score(reply)} :
            loc' = [loc EXCEPT ![c].reply = Some(reply),
                               ![c].llm_score = Some(llm_score),
                               ![c].score = final_score(@, llm_score)]
    /\ pc' = [pc EXCEPT ![c] = "store_score"]
    /\ UNCHANGED <<kind, config, suite, self, tcase, ret, seen,
                   norm_vars, batch_vars, svc_vars>>

JudgeAnswers(c) == JudgeAnswersFrom(c, JudgeReplies)

\* MathSolutionCompletenessMetric.measure up to line 326
BeginCompleteness(c) ==
    /\ kind = "completeness"
    /\ \E tc \in DOMAIN suite :
         \E l \in {suite[tc]} :
            Enter(c, tc, l, IF l.raised THEN "raised" ELSE "store_score")

\* MathConfidenceMetric.measure up to the right-hand sides of lines 430-436
BeginConfidence(c) ==
    /\ kind = "confidence"
    /\ \E tc \in DOMAIN suite :
         \E l \in {suite[tc]} :
            Enter(c, tc, l, IF l.raised THEN "raised" ELSE "store_score")

\* self.score = score (lines 61, 328, 430 and 435)
StoreScore(c) ==
    /\ pc[c] = "store_score"
    /\ self' = [self EXCEPT !.score = Some(loc[c].score)]
    /\ pc' = [pc EXCEPT ![c] = IF kind = "confidence" THEN "store_reason"
                               ELSE "store_success"]
    /\ UNCHANGED <<kind, config, suite, tcase, loc, ret, seen,
                   norm_vars, batch_vars, svc_vars>>

\* self.success = score >= self.threshold (lines 62 and 329, on the local
\* score); self.success = self.score >= self.threshold (line 438, on the
\* attribute)
StoreSuccess(c) ==
    /\ pc[c] = "store_success"
    /\ self' = [self EXCEPT !.success =
                  Some(passes(IF kind = "confidence" THEN self.score.v
                              ELSE loc[c].score, config.threshold))]
    /\ pc' = [pc EXCEPT ![c] =
                IF kind # "confidence" /\ config.include_reason
                THEN "store_reason" ELSE "return"]
    /\ UNCHANGED <<kind, config, suite, tcase, loc, ret, seen,
                   norm_vars, batch_vars, svc_vars>>

\* self.reason = ... (lines 64-65, 331-332, 431 and 436)
StoreReason(c) ==
    /\ pc[c] = "store_reason"
    /\ self' = [self EXCEPT !.reason = Some(reason_of(kind, tcase[c], loc[c]))]
    /\ pc' = [pc EXCEPT ![c] = IF kind = "confidence" THEN "store_success"
                               ELSE "return"]
    /\ UNCHANGED <<kind, config, suite, tcase, loc, ret, seen,
                   norm_vars, batch_vars, svc_vars>>

\* return score (lines 67 and 334); return self.score (line 439)
Return(c) ==
    /\ pc[c] = "return"
    /\ ret' = [ret EXCEPT ![c] =
                 Some(IF kind = "confidence" THEN self.score.v
                      ELSE loc[c].score)]
    /\ pc' = [pc EXCEPT ![c] = "returned"]
    /\ UNCHANGED <<kind, config, suite, self, tcase, loc, seen,
                   norm_vars, batch_vars, svc_vars>>

\* is_successful()
is_successful == self.success

\* after its measure() the caller reads the result off the instance
Read(c) ==
    /\ pc[c] = "returned"
    /\ seen' = [seen EXCEPT ![c] =
                  Some([score |-> self.score, success |-> is_successful,
                        reason |-> self.reason])]
    /\ pc' = [pc EXCEPT ![c] = "done"]
    /\ UNCHANGED <<kind, config, suite, self, tcase, loc, ret,
                   norm_vars, batch_vars, svc_vars>>

\* the steps of the metric's own code
Program(c) ==
    \/ BeginAccuracy(c)
    \/ BeginCompleteness(c)
    \/ BeginConfidence(c)
    \/ StoreScore(c)
    \/ StoreSuccess(c)
    \/ StoreReason(c)
    \/ Return(c)
    \/ Read(c)

Step(c) == Program(c) \/ JudgeAnswers(c)

\* one caller: measure() calls one after the other on one instance
Next == Step(1)

Spec == Init /\ [][Next]_vars

\* two callers share the instance
SharedConfigs(k) ==
    {cfg \in Configs(k) :
       /\ cfg.threshold = Num(9, 10)
       /\ cfg.include_reason
       /\ k = "accuracy" => ~cfg.strict_matching /\ cfg.use_llm_evaluation}

InitShared ==
    /\ \E k \in Kinds :
         \E cfg \in SharedConfigs(k) : Construct(k, cfg, SharedCases(k))
    /\ NormIdle
    /\ BatchIdle
    /\ ServicesIdle

NextShared == \E c \in Callers : Step(c)

SpecShared == InitShared /\ [][NextShared]_vars

----------------------------------------------------------------------------
(* The normalizer on its own.                                               *)

MaxAnswerParts == 2

AnswerFragments ==
    {<<"5">>, <<" ">>, <<"m","i","n">>, <<"m","i","n","s">>, <<"k","g">>,
     <<"1","/","2">>, <<"A","n","s","w","e","r",":">>}

\* answers under two labels, and under one
LabelledAnswers ==
    {<<"a","n","s","w","e","r",":"," ","s","o","l","u","t","i","o","n",":"," ","5">>,
     <<"s","o","l","u","t","i","o","n",":"," ","a","n","s","w","e","r",":"," ","5">>,
     <<"T","h","e"," ","a","n","s","w","e","r"," ","i","s"," ","r","e","s","u","l","t",":"," ","5">>,
     <<"F","i","n","a","l"," ","a","n","s","w","e","r",":"," ","5">>}

Answers == Texts(AnswerFragments, MaxAnswerParts) \cup LabelledAnswers \cup {None}

\* no metric is in use
MetricIdle ==
    Construct("accuracy",
              [threshold |-> Num(9, 10), strict_matching |-> FALSE,
               include_reason |-> TRUE, use_llm_evaluation |-> TRUE],
              {})

InitNorm ==
    /\ answer \in Answers
    /\ normalized = <<>>
    /\ renormalized = <<>>
    /\ npc = "given"
    /\ MetricIdle
    /\ BatchIdle
    /\ ServicesIdle

\* _normalize_mathematical_answer(answer)
Normalize ==
    /\ npc = "given"
    /\ normalized' = normalize_mathematical_answer(answer)
    /\ npc' = "normalized"
    /\ UNCHANGED <<answer, renormalized, metric_vars, batch_vars, svc_vars>>

\* _normalize_mathematical_answer on its own result
Renormalize ==
    /\ npc = "normalized"
    /\ renormalized' = normalize_mathematical_answer(normalized)
    /\ npc' = "renormalized"
    /\ UNCHANGED <<answer, normalized, metric_vars, batch_vars, svc_vars>>

NextNorm == Normalize \/ Renormalize

SpecNorm == InitNorm /\ [][NextNorm]_vars

----------------------------------------------------------------------------
(* The batch: MathSolverEvaluator.run_evaluation under                      *)
(* EvaluationRunner.run_comprehensive_evaluation.                           *)

\* the number of test cases of the batch
BatchSize == 3

\* what solve_math_problem returns: an answer, or the text of the exception
\* it caught
SolverOutputs ==
    {<<"4">>, <<"2","1">>, <<"E","r","r","o","r",":"," ","x">>}

InitBatch ==
    /\ bpc = "solving"
    /\ actual_outputs = <<>>
    /\ completed = Nothing
    /\ results = Nothing
    /\ MetricIdle
    /\ NormIdle
    /\ ServicesIdle

\* one turn of the loop of lines 238-242: await solve_math_problem, append
SolveCase ==
    /\ bpc = "solving"
    /\ Len(actual_outputs) < BatchSize
    /\ \E actual_output \in SolverOutputs :
         actual_outputs' = Append(actual_outputs, actual_output)
    /\ UNCHANGED <<bpc, completed, results, metric_vars, norm_vars, svc_vars>>

\* lines 244-254: the loop is over, evaluate() is called on all the cases
Evaluate ==
    /\ bpc = "solving"
    /\ Len(actual_outputs) = BatchSize
    /\ bpc' = "evaluating"
    /\ UNCHANGED <<actual_outputs, completed, results, metric_vars, norm_vars, svc_vars>>

\* lines 256-269, and run_comprehensive_evaluation's return: the detailed
\* results of all the cases
ReturnResults ==
    /\ bpc = "evaluating"
    /\ results' = Some(actual_outputs)
    /\ bpc' = "returned"
    /\ UNCHANGED <<actual_outputs, completed, metric_vars, norm_vars, svc_vars>>

\* the awaiting task is cancelled, or evaluate() raises: the exception
\* leaves run_evaluation, whose list goes with its frame, and
\* run_comprehensive_evaluation lets it through (lines 63-65 print and
\* re-raise an Exception; a CancelledError is not one)
Cancel ==
    /\ bpc \in {"solving", "evaluating"}
    /\ completed' = Some(actual_outputs)
    /\ actual_outputs' = <<>>
    /\ bpc' = "cancelled"
    /\ UNCHANGED <<results, metric_vars, norm_vars, svc_vars>>

NextBatch == SolveCase \/ Evaluate \/ ReturnResults \/ Cancel

SpecBatch == InitBatch /\ [][NextBatch]_vars
----------------------------------------------------------------------------
(* The similarity scorer on its own, on pairs of normalized strings.        *)

\* normalized strings: empty, zero numerals, near and far numerals, words,
\* a numeral inside another, the same tokens in another order, a fraction
\* and its decimal
ScoreStrings ==
    {<<>>, <<"0">>, <<"0",".","0">>, <<"0","0">>, <<"4">>, <<"4",".","1">>,
     <<"4","1">>, <<"x"," ","4">>, <<"4"," ","x">>, <<"x"," ","y">>,
     <<"1","0","0"," ","y">>, <<"9","9"," ","x">>,
     <<"1","2">>, <<"1","2","3">>, <<"9","9"," ","1","0","0">>,
     <<"1","0","0"," ","9","9">>, <<"1","/","2">>, <<"0",".","5">>}

\* a pair of normalized strings is given to the scorer
InitScore ==
    /\ \E expected \in ScoreStrings : \E actual \in ScoreStrings :
          sim = [spc |-> "given", expected |-> expected, actual |-> actual,
                 numerals |-> "none", score |-> Num(0, 1), back |-> Num(0, 1)]
    /\ app = "idle"
    /\ box = "idle"
    /\ auth = "idle"
    /\ tally = "idle"
    /\ MetricIdle
    /\ NormIdle
    /\ BatchIdle

\* _calculate_similarity_score(expected, actual) returns; numerals is what
\* became of the numeral rule (lines 198-215), "none" if not reached
Score ==
    /\ sim.spc = "given"
    /\ sim' = [sim EXCEPT
                 !.spc = "scored",
                 !.numerals =
                    IF similarity_rule(sim.expected, sim.actual)
                          \in {"exact", "substring"} THEN "none"
                    ELSE numeral_outcome(sim.expected, sim.actual),
                 !.score = calculate_similarity_score(sim.expected, sim.actual)]
    /\ UNCHANGED <<metric_vars, norm_vars, batch_vars, app, box, auth, tally>>

\* the same pair scored the other way round
ScoreBack ==
    /\ sim.spc = "scored"
    /\ sim' = [sim EXCEPT
                 !.spc = "compared",
                 !.back = calculate_similarity_score(sim.actual, sim.expected)]
    /\ UNCHANGED <<metric_vars, norm_vars, batch_vars, app, box, auth, tally>>

NextScore == Score \/ ScoreBack

SpecScore == InitScore /\ [][NextScore]_vars

----------------------------------------------------------------------------
(* Metrics constructed with any threshold the constructors accept.          *)

\* thresholds a caller may pass: the ends of [0, 1] and a value outside
AnyThresholds == {Num(0, 1), Num(1, 1), Num(3, 2)}

\* the constructors take every threshold they are given (lines 27, 298, 415)
AnyConfigs(k) ==
    IF k = "accuracy"
    THEN [threshold : AnyThresholds, strict_matching : BOOLEAN,
          include_reason : BOOLEAN, use_llm_evaluation : BOOLEAN]
    ELSE [threshold : AnyThresholds, strict_matching : {FALSE},
          include_reason : BOOLEAN, use_llm_evaluation : {FALSE}]

\* test cases with answers that agree after extraction and normalization,
\* and some that do not
ConfigCases(k) ==
    IF k = "accuracy"
    THEN [expected_output :
            {<<"4">>, <<>>, <<"9","0"," ","d","e","g","r","e","e","s">>},
          actual_output :
            {<<"T","h","e"," ","f","i","n","a","l"," ","a","n","s","w","e",
               "r",":"," ","4">>,
             <<"9","0","DEG">>, <<>>, <<"2","1">>}]
    ELSE SharedCases(k)

InitConfig ==
    /\ \E k \in Kinds :
         \E cfg \in AnyConfigs(k) : Construct(k, cfg, ConfigCases(k))
    /\ NormIdle
    /\ BatchIdle
    /\ ServicesIdle

SpecConfig == InitConfig /\ [][Next]_vars

----------------------------------------------------------------------------
(* The three metrics on responses that exercise the extractor, the judge's  *)
(* reply parser, the completeness checks and the confidence patterns.       *)

\* a line of 100 characters, too long for an answer line
LongLine == [i \in 1..MaxAnswerLineLen |-> "z"]

\* responses for the extractor: patterns in an order other than their
\* order in the text, no pattern, no answer line, nothing
ExtractorResponses ==
    {<<"T","h","e","r","e","f","o","r","e",","," ","x"," ","="," ","5","\n",
       "A","n","s","w","e","r",":"," ","4">>,
     <<"T","h","u","s",","," ","3","\n",
       "T","h","e"," ","r","e","s","u","l","t"," ","i","s"," ","7">>,
     <<"t","h","u","s"," ","3","\n","t","h","e","r","e","f","o","r","e"," ","5">>,
     <<"s","o"," ","x","?","\n"," ","4"," ","\n">>,
     <<" ","i","s"," ","i","t"," ","4","?"," ">>,
     <<"x","\n">> \o LongLine,
     <<"4">>,
     <<>>}

\* the texts with the vocabulary of any of the four components, "=" alone,
\* a text in capitals and the empty text
CompletenessResponses ==
    {(IF c1 THEN <<"T","h","e","r","e","f","o","r","e",","," ","x"," ","=",
                   " ","5","."," ">> ELSE <<>>)
     \o (IF c2 THEN <<"S","t","e","p"," ","1","."," ">> ELSE <<>>)
     \o (IF c3 THEN <<"B","e","c","a","u","s","e"," ">> ELSE <<>>)
     \o (IF c4 THEN <<"f","o","r","m","u","l","a">> ELSE <<>>) :
       c1 \in BOOLEAN, c2 \in BOOLEAN, c3 \in BOOLEAN, c4 \in BOOLEAN}
    \cup {<<"=">>, <<"T","H","E","O","R","E","M">>}

\* texts with one confidence pattern, with two in either order, with values
\* above and below 1, with and without a percent sign, and with none
ConfidenceResponses ==
    {<<"c","o","n","f","i","d","e","n","c","e",":"," ","0",".","5">>,
     <<"8","5","%"," ","c","o","n","f","i","d","e","n","t">>,
     <<"c","e","r","t","a","i","n","t","y",":"," ","1">>,
     <<"0",".","9","%"," ","c","o","n","f","i","d","e","n","t">>,
     <<"C","o","n","f","i","d","e","n","c","e"," ","1",".","5">>,
     <<"c","o","n","f","i","d","e","n","c","e",":"," ","5","0","0">>,
     <<"c","e","r","t","a","i","n","t","y",":"," ","9","0"," ",
       "8","5","%"," ","c","o","n","f","i","d","e","n","t">>,
     <<"8","5","%"," ","c","o","n","f","i","d","e","n","t",","," ",
       "c","o","n","f","i","d","e","n","c","e",":"," ","0",".","5">>,
     <<"4">>}

\* the test cases of a metric of kind k
DetailCases(k) ==
    [expected_output : {<<"4">>},
     actual_output : CASE k = "accuracy"     -> ExtractorResponses
                       [] k = "completeness" -> CompletenessResponses
                       [] k = "confidence"   -> ConfidenceResponses]

\* message contents the judge model may answer with: numerals in and out of
\* [0, 1], with text around them, none
DetailContents ==
    {<<"8","5">>, <<"1">>, <<"0",".","9">>, <<"1",".","5">>,
     <<"S","c","o","r","e",":"," ","0",".","5","\n">>, <<"-","0",".","5">>,
     <<"0">>, <<"n","/","a">>, <<>>, None}

DetailReplies ==
    {[kind |-> "raise"]} \cup [kind : {"reply"}, content : DetailContents]

InitDetail ==
    /\ \E k \in Kinds :
         \E cfg \in Configs(k) : Construct(k, cfg, DetailCases(k))
    /\ NormIdle
    /\ BatchIdle
    /\ ServicesIdle

NextDetail == Program(1) \/ JudgeAnswersFrom(1, DetailReplies)

SpecDetail == InitDetail /\ [][NextDetail]_vars

----------------------------------------------------------------------------
(* The use cases of the math solving module, the Firebase repository and    *)
(* the document store behind it.                                            *)

\* how many documents the store takes, and how many identifiers are drawn
MaxDocs == 2

\* FirebaseClient.save_solution: the data is set on a new document of the
\* user's collection, under the identifier doc_id the store generates
save_solution(store, user_id, problem_data, doc_id) ==
    store \cup {[user |-> user_id, id |-> doc_id, data |-> problem_data]}

\* FirebaseMathSolverRepository.save_problem, lines 41 and 70: the
\* identifier it returns
save_problem(problem, uuid) == IF problem.id.some THEN problem.id.v ELSE uuid

\* the use case failing the request when the history could not be saved
solve_result_failing_on_save(problem, saved) ==
    IF saved.some
    THEN [status |-> 200, detail |-> "",
          value |-> Some([problem EXCEPT !.id = saved])]
    ELSE [status |-> 500, detail |-> "Solving failed", value |-> Nothing]

\* SolveMathProblemUseCase.execute, lines 53-61: saved is what save_problem
\* returned, Nothing if it raised
solve_result(problem, saved) ==
    IF saved.some
    THEN [status |-> 200, detail |-> "",
          value |-> Some([problem EXCEPT !.id = saved])]
    ELSE [status |-> 200, detail |-> "", value |-> Some(problem)]

\* the use case without its `except HTTPException: raise`
delete_result_catching_all(deleted) ==
    IF deleted.raised \/ ~deleted.value
    THEN [status |-> 500, detail |-> "Failed to delete problem",
          value |-> Nothing]
    ELSE [status |-> 200, detail |-> "", value |-> Some(deleted.value)]

\* DeleteProblemUseCase.execute, lines 117-134: deleted is what
\* repository.delete_problem did; HTTP 500 carries the exception's text
\* after "Failed to delete problem"
delete_result(deleted) ==
    IF deleted.raised
    THEN [status |-> 500, detail |-> "Failed to delete problem",
          value |-> Nothing]
    ELSE IF ~deleted.value
    THEN [status |-> 404, detail |-> "Problem not found or access denied",
          value |-> Nothing]
    ELSE [status |-> 200, detail |-> "", value |-> Some(deleted.value)]

\* the use cases are constructed, the store is empty
InitApp ==
    /\ app = [apc |-> "ready", request |-> "none", user |-> "none",
              ai |-> "none", problem |-> Nothing, saved |-> Nothing,
              save_calls |-> 0, deleted |-> Nothing, result |-> Nothing,
              store |-> {}, uuids |-> 0]
    /\ sim = "idle"
    /\ box = "idle"
    /\ auth = "idle"
    /\ tally = "idle"
    /\ MetricIdle
    /\ NormIdle
    /\ BatchIdle

\* SolveMathProblemUseCase.execute up to line 50: the AI service answers or
\* raises; a raise leaves through line 63 as HTTP 500
SolveProblem ==
    /\ app.apc \in {"ready", "returned", "failed"}
    /\ \E user \in {"alice", "bob"} :
         \E ai \in {"x = 4", "x = 5", "raise"} :
            app' = [app EXCEPT
                      !.request = "solve", !.user = user, !.ai = ai,
                      !.saved = Nothing, !.save_calls = 0,
                      !.deleted = Nothing,
                      !.problem =
                         IF ai = "raise" THEN Nothing
                         ELSE Some([id |-> Nothing, answer |-> ai,
                                    user_id |-> user]),
                      !.result =
                         IF ai = "raise"
                         THEN Some([status |-> 500,
                                    detail |-> "Solving failed",
                                    value |-> Nothing])
                         ELSE Nothing,
                      !.apc = IF ai = "raise" THEN "failed" ELSE "saving"]
    /\ UNCHANGED <<metric_vars, norm_vars, batch_vars, sim, box, auth, tally>>

\* lines 53-61 of the use case around repository.save_problem (lines 37-74
\* of the repository): the client cannot be had or save_solution raises, or
\* the document is stored and the identifier of line 41 is returned
SaveProblem ==
    /\ app.apc = "saving"
    /\ \E stored \in BOOLEAN :
         LET problem == app.problem.v
             uuid == [kind |-> "uuid", n |-> app.uuids + 1]
             doc_id == [kind |-> "auto", n |-> Cardinality(app.store) + 1]
             saved == IF stored THEN Some(save_problem(problem, uuid))
                      ELSE Nothing
         IN  /\ stored => Cardinality(app.store) < MaxDocs
             /\ app' = [app EXCEPT
                          !.save_calls = @ + 1,
                          !.saved = saved,
                          !.uuids = IF stored THEN @ + 1 ELSE @,
                          !.store =
                             IF stored
                             THEN save_solution(@, problem.user_id,
                                                problem.answer, doc_id)
                             ELSE @,
                          !.result = Some(solve_result(problem, saved)),
                          !.apc = "returned"]
    /\ UNCHANGED <<metric_vars, norm_vars, batch_vars, sim, box, auth, tally>>

\* DeleteProblemUseCase.execute: the repository reports the problem deleted,
\* reports it not found, or raises
DeleteProblem ==
    /\ app.apc \in {"ready", "returned", "failed"}
    /\ \E user \in {"alice", "bob"} :
         \E deleted \in {[raised |-> TRUE, value |-> FALSE]}
                           \cup [raised : {FALSE}, value : BOOLEAN] :
            app' = [app EXCEPT
                      !.request = "delete", !.user = user, !.ai = "none",
                      !.problem = Nothing, !.saved = Nothing,
                      !.save_calls = 0,
                      !.deleted = Some(deleted),
                      !.result = Some(delete_result(deleted)),
                      !.apc = IF delete_result(deleted).status = 200
                              THEN "returned" ELSE "failed"]
    /\ UNCHANGED <<metric_vars, norm_vars, batch_vars, sim, box, auth, tally>>

NextApp == SolveProblem \/ SaveProblem \/ DeleteProblem

SpecApp == InitApp /\ [][NextApp]_vars

----------------------------------------------------------------------------
(* The dependency injection containers.  Every accessor is a method under   *)
(* @lru_cache(maxsize=1): one cache per accessor, shared by all containers  *)
(* and keyed by the container, in front of the container's own _instances.  *)

\* two containers: what one of them puts into an accessor's cache pushes
\* out what the other one had there
Containers == {1, 2}

\* the accessors of a Container; the use cases with what they are built of
Accessors ==
    [auth_service |-> {}, ai_service |-> {}, math_solver_repository |-> {},
     solve_math_problem_use_case |-> {"ai_service", "math_solver_repository"},
     get_user_history_use_case |-> {"math_solver_repository"},
     delete_problem_use_case |-> {"math_solver_repository"}]

\* an accessor whose body constructs without looking into _instances
cached_uninstanced(b, c, a, parts) ==
    IF b.cache[a] # Nothing /\ b.cache[a].v.key = c THEN b
    ELSE LET stored(made) ==
                 [b EXCEPT !.instances[c][a] = Some(made),
                           !.made[c][a] = @ + 1,
                           !.cache[a] = Some([key |-> c, value |-> made])]
         IN  stored([container |-> c, accessor |-> a,
                     n |-> b.made[c][a] + 1, parts |-> parts])

\* c.a() for an accessor a whose parts, if any, are at hand: a hit of the
\* accessor's cache returns the cached object; otherwise the body runs,
\* constructs the object if _instances has none, and the cache keeps the
\* result under the key c in place of what it held
cached(b, c, a, parts) ==
    IF b.cache[a] # Nothing /\ b.cache[a].v.key = c THEN b
    ELSE IF b.instances[c][a] # Nothing
    THEN [b EXCEPT !.cache[a] = Some([key |-> c, value |-> b.instances[c][a].v])]
    ELSE LET stored(made) ==
                 [b EXCEPT !.instances[c][a] = Some(made),
                           !.made[c][a] = @ + 1,
                           !.cache[a] = Some([key |-> c, value |-> made])]
         IN  stored([container |-> c, accessor |-> a,
                     n |-> b.made[c][a] + 1, parts |-> parts])

\* c.a() with the calls its body makes for the parts of a use case, which
\* are made only when the use case has to be constructed (lines 47-50)
RECURSIVE with_parts(_, _, _, _)
with_parts(b, c, a, todo) ==
    IF todo = {} \/ (b.cache[a] # Nothing /\ b.cache[a].v.key = c)
                \/ b.instances[c][a] # Nothing
    THEN b
    ELSE LET next(p) == with_parts(cached(b, c, p, <<>>), c, a, todo \ {p})
         IN  next(CHOOSE p \in todo : TRUE)

accessor(b, c, a) ==
    LET built(b1) ==
            cached(b1, c, a,
                   [p \in Accessors[a] |-> b1.cache[p].v.value])
    IN  IF b.cache[a] # Nothing /\ b.cache[a].v.key = c THEN b
        ELSE IF b.instances[c][a] # Nothing THEN cached(b, c, a, <<>>)
        ELSE built(with_parts(b, c, a, Accessors[a]))

\* the containers are constructed: self._instances = {} (line 21)
InitBox ==
    /\ box = [instances |-> [c \in Containers |->
                               [a \in DOMAIN Accessors |-> Nothing]],
              made |-> [c \in Containers |-> [a \in DOMAIN Accessors |-> 0]],
              cache |-> [a \in DOMAIN Accessors |-> Nothing],
              first |-> [c \in Containers |->
                           [a \in DOMAIN Accessors |-> Nothing]],
              same |-> TRUE]
    /\ sim = "idle"
    /\ app = "idle"
    /\ auth = "idle"
    /\ tally = "idle"
    /\ MetricIdle
    /\ NormIdle
    /\ BatchIdle

\* some code calls c.a(); first keeps what the first such call returned,
\* same whether every later call returned that object again
CallAccessor(c, a) ==
    /\ \E b \in {accessor(box, c, a)} :
         \E returned \in {b.cache[a].v.value} :
            box' = [b EXCEPT
                      !.first[c][a] = IF @ = Nothing THEN Some(returned) ELSE @,
                      !.same = @ /\ (box.first[c][a] = Nothing
                                      \/ box.first[c][a] = Some(returned))]
    /\ UNCHANGED <<metric_vars, norm_vars, batch_vars, sim, app, auth, tally>>

NextBox == \E c \in Containers : \E a \in DOMAIN Accessors : CallAccessor(c, a)

SpecBox == InitBox /\ [][NextBox]_vars

----------------------------------------------------------------------------
(* AuthService of app/core/auth.py with the FirebaseClient it constructs.   *)

\* how many get_current_user calls an AuthService is followed through
MaxAuthCalls == 8

\* FirebaseClient.verify_token: the decoded token of the identity provider,
\* or None for whatever auth.verify_id_token raised
verify_token(provider) ==
    IF provider.raised THEN Nothing ELSE Some(provider.claims)

\* AuthService.get_firebase_client: the client is constructed if there is
\* none; built says whether FirebaseClient() returns or raises
get_firebase_client(a, built) ==
    IF a.client # Nothing \/ ~built THEN a
    ELSE [a EXCEPT !.client = Some("FirebaseClient"), !.constructed = @ + 1]

\* AuthService.get_current_user, lines 40-80: client is what
\* get_firebase_client left in the service, Nothing if FirebaseClient()
\* raised; decoded is what verify_token returned
get_current_user(credentials, client, decoded) ==
    LET unauthorized(detail) ==
            [status |-> 401, detail |-> detail, value |-> Nothing]
    IN  IF credentials = Nothing
        THEN unauthorized("Authorization token required")
        ELSE IF client = Nothing THEN unauthorized("Authentication failed")
        ELSE IF decoded = Nothing
        THEN unauthorized("Invalid or expired token")
        ELSE [status |-> 200, detail |-> "",
              value |-> Some([uid |-> decoded.v.uid])]

\* AuthService(): no client yet (line 17)
InitAuth ==
    /\ auth = [client |-> Nothing, constructed |-> 0, calls |-> 0,
               credentials |-> Nothing, built |-> FALSE,
               provider |-> Nothing, result |-> Nothing]
    /\ sim = "idle"
    /\ app = "idle"
    /\ box = "idle"
    /\ tally = "idle"
    /\ MetricIdle
    /\ NormIdle
    /\ BatchIdle

\* one call of get_current_user: with or without credentials (a token named
\* by its owner, or an expired one), FirebaseClient() returning or raising
\* if it is called, the identity provider decoding the token or raising;
\* provider is Nothing when the provider was not asked
GetCurrentUser ==
    /\ auth.calls < MaxAuthCalls
    /\ \E credentials \in {Nothing, Some("alice"), Some("bob"),
                           Some("expired")} :
       \E built \in BOOLEAN :
       \E verdict \in {[raised |-> TRUE, claims |-> [uid |-> "none"]],
                      [raised |-> FALSE, claims |-> [uid |-> "alice"]],
                      [raised |-> FALSE, claims |-> [uid |-> "bob"]]} :
          /\ (credentials # Nothing /\ ~verdict.raised) =>
                credentials.v = verdict.claims.uid
          /\ \E a \in {IF credentials = Nothing THEN auth
                       ELSE get_firebase_client(auth, built)} :
             \E asked \in {credentials # Nothing /\ a.client # Nothing} :
                auth' = [a EXCEPT
                           !.calls = @ + 1,
                           !.credentials = credentials,
                           !.built = built,
                           !.provider = IF asked THEN Some(verdict) ELSE Nothing,
                           !.result =
                              Some(get_current_user(
                                      credentials, a.client,
                                      IF asked THEN verify_token(verdict)
                                      ELSE Nothing))]
    /\ UNCHANGED <<metric_vars, norm_vars, batch_vars, sim, app, box, tally>>

SpecAuth == InitAuth /\ [][GetCurrentUser]_vars

----------------------------------------------------------------------------
(* EvaluationRunner._calculate_summary_metrics of run_evaluation.py on the  *)
(* detailed results of a batch.                                             *)

\* how many detailed results a batch has at most
MaxResults == 3

\* detailed results: the expected and the actual answer of a case, equal
\* up to case and outer whitespace, one inside the other, numerically
\* equivalent, or none of these
DetailedResults ==
    {[expected |-> <<"4">>, actual |-> <<"4">>],
     [expected |-> <<"X"," ","="," ","5">>,
      actual |-> <<" ","x"," ","="," ","5","\n">>],
     [expected |-> <<"4">>,
      actual |-> <<"T","h","e"," ","a","n","s","w","e","r"," ","i","s"," ","4">>],
     [expected |-> <<"4">>, actual |-> <<"3",".","9","9","5">>],
     [expected |-> <<"4">>, actual |-> <<>>],
     [expected |-> <<"4">>, actual |-> <<"5">>],
     [expected |-> <<"x"," ","="," ","5">>, actual |-> <<"y"," ","="," ","6">>]}

\* EvaluationRunner._is_numerically_equivalent: the first numerals of the
\* two strings are less than 0.01 apart
is_numerically_equivalent(expected, actual) ==
    LET near(a, b) ==
            (IF Lt(a, b) THEN b.n * a.d - a.n * b.d
                         ELSE a.n * b.d - b.n * a.d) * 100 < a.d * b.d
        equivalent(expected_nums, actual_nums) ==
            IF expected_nums = <<>> \/ actual_nums = <<>> THEN FALSE
            ELSE near(float(expected_nums[1]), float(actual_nums[1]))
    IN  equivalent(findall_numerals(expected), findall_numerals(actual))

\* the counters with every test that holds counted, not the first only
count_result_every_test(counts, result) ==
    LET counted(expected, actual) ==
            [counts EXCEPT
               !.exact_matches = IF expected = actual THEN @ + 1 ELSE @,
               !.partial_matches =
                  IF \/ contains(actual, expected)
                     \/ contains(expected, actual)
                     \/ is_numerically_equivalent(expected, actual)
                  THEN @ + 1 ELSE @,
               !.no_matches =
                  IF /\ expected # actual
                     /\ ~contains(actual, expected)
                     /\ ~contains(expected, actual)
                     /\ ~is_numerically_equivalent(expected, actual)
                  THEN @ + 1 ELSE @,
               !.answer_lengths = Append(@, Len(actual)),
               !.expected_lengths = Append(@, Len(expected))]
    IN  counted(lower(strip(result.expected)), lower(strip(result.actual)))

\* lines 85-100: one turn of the loop over detailed_results
count_result(counts, result) ==
    LET counted(expected, actual) ==
            [counts EXCEPT
               !.exact_matches = IF expected = actual THEN @ + 1 ELSE @,
               !.partial_matches =
                  IF /\ expected # actual
                     /\ \/ contains(actual, expected)
                        \/ contains(expected, actual)
                        \/ is_numerically_equivalent(expected, actual)
                  THEN @ + 1 ELSE @,
               !.no_matches =
                  IF /\ expected # actual
                     /\ ~contains(actual, expected)
                     /\ ~contains(expected, actual)
                     /\ ~is_numerically_equivalent(expected, actual)
                  THEN @ + 1 ELSE @,
               !.answer_lengths = Append(@, Len(actual)),
               !.expected_lengths = Append(@, Len(expected))]
    IN  counted(lower(strip(result.expected)), lower(strip(result.actual)))

\* sum(lengths)
RECURSIVE sum(_)
sum(lengths) ==
    IF lengths = <<>> THEN 0 ELSE lengths[1] + sum(Tail(lengths))

\* lines 102-111: the summary of a batch that is not empty; the quotients
\* are kept exact, and rounding a quotient to a float keeps their order
summary_metrics(total_cases, counts) ==
    [total_cases      |-> total_cases,
     exact_matches    |-> counts.exact_matches,
     partial_matches  |-> counts.partial_matches,
     no_matches       |-> counts.no_matches,
     exact_accuracy   |-> Num(counts.exact_matches * 100, total_cases),
     partial_accuracy |->
        Num((counts.exact_matches + counts.partial_matches) * 100,
            total_cases),
     average_answer_length |->
        Num(sum(counts.answer_lengths), Len(counts.answer_lengths)),
     average_expected_length |->
        Num(sum(counts.expected_lengths), Len(counts.expected_lengths))]

\* lines 77-82: the counters before the loop
NoCounts ==
    [exact_matches |-> 0, partial_matches |-> 0, no_matches |-> 0,
     answer_lengths |-> <<>>, expected_lengths |-> <<>>]

\* _calculate_summary_metrics is called with the results of a batch
InitSummary ==
    /\ \E n \in 0..MaxResults :
         \E detailed_results \in [1..n -> DetailedResults] :
            tally = [tpc |-> "called", detailed_results |-> detailed_results,
                     counts |-> NoCounts, summary |-> [none |-> TRUE]]
    /\ sim = "idle"
    /\ app = "idle"
    /\ box = "idle"
    /\ auth = "idle"
    /\ MetricIdle
    /\ NormIdle
    /\ BatchIdle

\* lines 70-82: an empty batch has the error for a summary
BeginSummary ==
    /\ tally.tpc = "called"
    /\ tally' = IF Len(tally.detailed_results) = 0
                THEN [tally EXCEPT
                        !.tpc = "returned",
                        !.summary = [error |-> "No test cases processed"]]
                ELSE [tally EXCEPT !.tpc = "counting"]
    /\ UNCHANGED <<metric_vars, norm_vars, batch_vars, sim, app, box, auth>>

\* lines 84-100: the next result is counted
CountResult ==
    /\ tally.tpc = "counting"
    /\ Len(tally.counts.answer_lengths) < Len(tally.detailed_results)
    /\ tally' = [tally EXCEPT
                   !.counts =
                      count_result(@, tally.detailed_results[
                                         Len(@.answer_lengths) + 1])]
    /\ UNCHANGED <<metric_vars, norm_vars, batch_vars, sim, app, box, auth>>

\* lines 102-111: the loop is over
ReturnSummary ==
    /\ tally.tpc = "counting"
    /\ Len(tally.counts.answer_lengths) = Len(tally.detailed_results)
    /\ tally' = [tally EXCEPT
                   !.tpc = "returned",
                   !.summary = summary_metrics(Len(tally.detailed_results),
                                               tally.counts)]
    /\ UNCHANGED <<metric_vars, norm_vars, batch_vars, sim, app, box, auth>>

NextSummary == BeginSummary \/ CountResult \/ ReturnSummary

SpecSummary == InitSummary /\ [][NextSummary]_vars

----------------------------------------------------------------------------
(* Properties.                                                              *)

\* the positions of a caller between two measure() calls
Quiet == {"idle", "returned", "done", "raised"}

\* the positions of a call once its score is final
Scored == {"store_score", "store_success", "store_reason", "return",
           "returned", "done"}

\* C1: when exactly one of the normalized strings is empty, the similarity
\* score is 0.0 (so an empty answer cannot pass a non-empty expected answer)
C1_EmptySideScoresZero ==
    \A c \in Callers :
       (kind = "accuracy" /\ ~config.strict_matching /\ pc[c] # "idle") =>
          (((normalize_mathematical_answer(tcase[c].expected_output) = <<>>)
              # (normalize_mathematical_answer(loc[c].actual_clean) = <<>>))
             => loc[c].det = Num(0, 1))

\* C2: normalizing a normal form gives it back:
\* normalize(normalize(s)) = normalize(s)
C2_NormalizeIdempotent ==
    npc = "renormalized" => renormalized = normalized

\* C3: what a caller reads off a shared metric after its measure() call is
\* the score, the verdict and the reason of its own test case
C3_CallerReadsOwnResult ==
    \A c \in Callers :
       seen[c].some =>
          /\ seen[c].v.score = Some(loc[c].score)
          /\ seen[c].v.success = Some(Ge(loc[c].score, config.threshold))
          /\ seen[c].v.reason = Some(reason_of(kind, tcase[c], loc[c]))

\* C4: measure() never raises, whatever the test case
C4_MeasureNeverRaises ==
    \A c \in Callers : pc[c] # "raised" /\ ret[c] # Some("raised")

\* C5: without strict matching the final score is the larger of the
\* deterministic score and the judge's score, so never below the
\* deterministic score; it is the deterministic score when the judge was not
\* asked, and it is the score returned and stored
C5_FinalScoreIsMaximum ==
    \A c \in Callers :
       (kind = "accuracy" /\ ~config.strict_matching /\ pc[c] \in Scored) =>
          /\ Ge(loc[c].score, loc[c].det)
          /\ loc[c].llm_score.some =>
                /\ Ge(loc[c].score, loc[c].llm_score.v)
                /\ loc[c].score \in {loc[c].det, loc[c].llm_score.v}
          /\ ~loc[c].llm_score.some => loc[c].score = loc[c].det
          /\ pc[c] \in {"returned", "done"} =>
                ret[c] = Some(loc[c].score) /\ self.score = Some(loc[c].score)

\* a call whose judge raised the score above the deterministic one has
\* returned
C5_Witness ==
    /\ pc[1] = "returned"
    /\ loc[1].llm_score.some
    /\ Lt(loc[1].det, loc[1].llm_score.v)
    /\ ret[1] = loc[1].llm_score

\* C6: the judge is called at most once in a measure() call, and only when
\* strict matching is off, the judge is enabled and the deterministic score
\* is below 0.8
C6_JudgeOnlyWhenNeeded ==
    \A c \in Callers :
       /\ loc[c].judge_calls <= 1
       /\ (loc[c].judge_calls > 0 \/ pc[c] = "judge_wait"
             \/ loc[c].llm_score.some) =>
             /\ kind = "accuracy"
             /\ ~config.strict_matching
             /\ config.use_llm_evaluation
             /\ Lt(loc[c].det, Num(8, 10))

\* a call waits for the judge, and its deterministic score is a partial
\* match below 0.8
C6_Witness ==
    /\ pc[1] = "judge_wait"
    /\ loc[1].judge_calls = 1
    /\ Lt(Num(0, 1), loc[1].det)

\* the judge's call failed: it raised, or its reply has no content or no
\* numeral
JudgeFailed(l) ==
    /\ l.reply.some
    /\ \/ l.reply.v.kind = "raise"
       \/ l.reply.v.content \in {None, <<"n","/","a">>}

\* C7: a failed judge call counts as judge score 0.0 and is not raised: the
\* call goes on and returns the deterministic score
C7_JudgeFailureScoresZero ==
    \A c \in Callers :
       JudgeFailed(loc[c]) =>
          /\ loc[c].llm_score = Some(Num(0, 1))
          /\ loc[c].score = loc[c].det
          /\ pc[c] \in Scored
          /\ pc[c] \in {"returned", "done"} => ret[c] = Some(loc[c].det)

\* a call whose judge raised has returned its deterministic score, a partial
\* match
C7_Witness ==
    /\ pc[1] = "returned"
    /\ loc[1].reply = Some([kind |-> "raise"])
    /\ ret[1] = Some(Num(5, 10))

\* C9: when the batch is cut off after some cases were solved, the outputs
\* of those cases are returned to its caller
C9_PartialResultsReturned ==
    (bpc = "cancelled" /\ completed.v # <<>>) => results = completed

\* C10: between measure() calls the stored verdict is (stored score >=
\* threshold), and a call that returned has stored a verdict
C10_VerdictMatchesScore ==
    (\A c \in Callers : pc[c] \in Quiet) =>
       /\ self.success.some =>
             /\ self.score.some
             /\ self.success.v = Ge(self.score.v, config.threshold)
       /\ (\E c \in Callers : pc[c] \in {"returned", "done"}) =>
             self.success.some

\* a call has returned with a score equal to the threshold, and has passed
C10_Witness ==
    /\ pc[1] = "returned"
    /\ self.score = Some(config.threshold)
    /\ self.success = Some(TRUE)

\* C11: the similarity scorer returns a value in [0, 1] for every pair of
\* normalized strings, and its relative-difference test never divides by
\* zero
C11_ScoreBoundedNoZeroDivision ==
    sim.spc \in {"scored", "compared"} =>
       /\ Ge(sim.score, Num(0, 1))
       /\ Ge(Num(1, 1), sim.score)
       /\ sim.numerals # "zero_division"

\* two different zero numerals, neither inside the other, were scored by
\* the numeral rule
C11_Witness ==
    /\ sim.spc = "scored"
    /\ sim.expected = <<"0",".","0">>
    /\ sim.actual = <<"0","0">>
    /\ sim.numerals = "close"
    /\ sim.score = Num(95, 100)

\* C12: the similarity score is symmetric: score(A, B) = score(B, A)
C12_ScoreSymmetric ==
    sim.spc = "compared" => sim.back = sim.score

\* a pair decided by the substring rule, the expected string containing the
\* actual one and not the other way round, was scored both ways
C12_Witness ==
    /\ sim.spc = "compared"
    /\ sim.expected # sim.actual
    /\ contains(sim.expected, sim.actual)
    /\ sim.actual # <<>>
    /\ sim.score = Num(9, 10)

\* C13: when the extracted and normalized actual answer equals the
\* normalized expected answer, the accuracy metric scores 1.0 without asking
\* the judge, in strict and in non-strict mode, and passes at every
\* threshold up to 1.0
C13_EqualAnswersScoreOne ==
    \A c \in Callers :
       (/\ kind = "accuracy"
        /\ pc[c] # "idle"
        /\ normalize_mathematical_answer(tcase[c].expected_output)
             = normalize_mathematical_answer(loc[c].actual_clean)) =>
          /\ pc[c] \in Scored
          /\ loc[c].judge_calls = 0
          /\ loc[c].score = Num(1, 1)
          /\ pc[c] \in {"returned", "done"} =>
                /\ ret[c] = Some(Num(1, 1))
                /\ self.score = Some(Num(1, 1))
                /\ Ge(Num(1, 1), config.threshold) => self.success = Some(TRUE)

\* expected "4" against "The final answer: 4" has passed at threshold 1.0
\* in non-strict mode with the judge enabled
C13_Witness ==
    /\ kind = "accuracy"
    /\ pc[1] = "returned"
    /\ ~config.strict_matching
    /\ config.use_llm_evaluation
    /\ config.threshold = Num(1, 1)
    /\ tcase[1].expected_output = <<"4">>
    /\ Len(tcase[1].actual_output) > 1
    /\ loc[1].actual_clean = <<"4">>
    /\ self.success = Some(TRUE)

\* C14: no metric with a threshold outside [0, 1] reaches measure()
C14_ThresholdInRange ==
    \A c \in Callers :
       pc[c] # "idle" =>
          Ge(config.threshold, Num(0, 1)) /\ Ge(Num(1, 1), config.threshold)

\* C15: SolveMathProblemUseCase.execute returns the solved problem with no
\* id and the answer intact when save_problem raised, with the id that
\* save_problem returned when it succeeded, and fails with HTTP 500 without
\* calling save_problem when the AI service raised
C15_SolveOutcomes ==
    (app.request = "solve" /\ app.apc \in {"returned", "failed"}) =>
       /\ app.ai = "raise" =>
             /\ app.apc = "failed"
             /\ app.result.v.status = 500
             /\ app.save_calls = 0
       /\ app.ai # "raise" =>
             /\ app.apc = "returned"
             /\ app.save_calls = 1
             /\ app.result.v.status = 200
             /\ app.result.v.value.v.answer = app.ai
             /\ app.result.v.value.v.id = app.saved

\* the AI service answered, save_problem raised, and the request returned
\* the problem without an id
C15_Witness ==
    /\ app.request = "solve"
    /\ app.apc = "returned"
    /\ app.save_calls = 1
    /\ app.saved = Nothing
    /\ app.result.v.status = 200
    /\ app.result.v.value.v.id = Nothing
    /\ app.result.v.value.v.answer = "x = 4"

\* C16: DeleteProblemUseCase.execute returns True when the repository
\* reports the problem deleted, raises HTTP 404 when it reports False, and
\* raises HTTP 500 when it raises
C16_DeleteOutcomes ==
    (app.request = "delete" /\ app.apc \in {"returned", "failed"}) =>
       /\ (~app.deleted.v.raised /\ app.deleted.v.value) =>
             /\ app.apc = "returned"
             /\ app.result.v.status = 200
             /\ app.result.v.value = Some(TRUE)
       /\ (~app.deleted.v.raised /\ ~app.deleted.v.value) =>
             /\ app.apc = "failed"
             /\ app.result.v.status = 404
             /\ app.result.v.detail = "Problem not found or access denied"
       /\ app.deleted.v.raised =>
             /\ app.apc = "failed"
             /\ app.result.v.status = 500
             /\ app.result.v.detail = "Failed to delete problem"

\* the repository reported the problem not found and the request failed
\* with HTTP 404
C16_Witness ==
    /\ app.request = "delete"
    /\ app.apc = "failed"
    /\ app.deleted = Some([raised |-> FALSE, value |-> FALSE])
    /\ app.result.v.status = 404

\* C19: the identifier save_problem returns, which the use case assigns to
\* problem.id, is the identifier of the document stored for that user
C19_ReturnedIdIsStoredId ==
    (app.request = "solve" /\ app.apc = "returned" /\ app.saved.some) =>
       \E doc \in app.store :
          /\ doc.user = app.user
          /\ doc.id = app.result.v.value.v.id.v
          /\ doc.data = app.ai

\* C17: every call of an accessor on a container returns the object its
\* first call returned, an object that container constructed and no other
\* container returns, and a use case holds the ai_service and the repository
\* of its own container
C17_PerContainerSingletons ==
    /\ box.same
    /\ \A c \in Containers : \A a \in DOMAIN Accessors :
          box.first[c][a] # Nothing =>
             /\ box.first[c][a].v.container = c
             /\ box.first[c][a].v.accessor = a
             /\ \A d \in Containers : \A e \in DOMAIN Accessors :
                   (<<c, a>> # <<d, e>> /\ box.first[d][e] # Nothing) =>
                      box.first[d][e] # box.first[c][a]
             /\ \A p \in Accessors[a] :
                   box.first[c][a].v.parts[p] = box.instances[c][p].v

\* both containers have handed out their solve use case, the first of them
\* again after the other one took its place in the accessor's cache
C17_Witness ==
    /\ box.first[1]["solve_math_problem_use_case"] # Nothing
    /\ box.first[2]["solve_math_problem_use_case"] # Nothing
    /\ box.cache["solve_math_problem_use_case"].v.key = 1
    /\ box.cache["ai_service"].v.key = 2

\* C18: AuthService.get_current_user answers every failure with HTTP 401:
\* "Authorization token required" without credentials, "Invalid or expired
\* token" when verification returned nothing, "Authentication failed" when
\* the identity provider raised; it returns user information only for a
\* token the provider decoded, and the Firebase client is constructed at
\* most once
C18_AuthFailuresMapped ==
    auth.calls > 0 =>
       /\ auth.constructed <= 1
       /\ auth.result.v.status \in {200, 401}
       /\ auth.credentials = Nothing =>
             /\ auth.result.v.status = 401
             /\ auth.result.v.detail = "Authorization token required"
       /\ (auth.provider # Nothing /\ auth.provider.v.raised) =>
             /\ auth.result.v.status = 401
             /\ auth.result.v.detail = "Authentication failed"
       /\ auth.result.v.status = 200 =>
             /\ auth.provider # Nothing
             /\ ~auth.provider.v.raised
             /\ auth.result.v.value = Some(auth.provider.v.claims)

\* C20: a text that ends with the unit "min" or "mins" normalizes to a text
\* that ends with "minutes", and the "minutes" written for one entry of the
\* table is not rewritten by a later entry
C20_UnitsMappedOnce ==
    (/\ npc # "given"
     /\ answer # None
     /\ \/ endswith(answer, <<"m","i","n">>)
        \/ endswith(answer, <<"m","i","n","s">>)) =>
       /\ endswith(normalized, <<"m","i","n","u","t","e","s">>)
       /\ ~contains(normalized, <<"m","i","n","u","t","e","s","u","t","e","s">>)

\* the first of prefixes_to_remove that s starts with, 0 if there is none
FirstPrefix(s) ==
    IF \E k \in 1..Len(prefixes_to_remove) : startswith(s, prefixes_to_remove[k])
    THEN CHOOSE k \in 1..Len(prefixes_to_remove) :
            /\ startswith(s, prefixes_to_remove[k])
            /\ \A j \in 1..(k - 1) : ~startswith(s, prefixes_to_remove[j])
    ELSE 0

\* s without its first k characters, stripped
AfterLabel(s, k) == strip(From(s, k + 1))

\* C21: only the first label that the lowercased answer starts with is
\* removed: when what follows it starts with a label again and ends with a
\* digit, the normal form starts with that second label
C21_OnlyFirstPrefixRemoved ==
    (npc # "given" /\ answer # None /\ FirstPrefix(strip(lower(answer))) > 0) =>
       \A q \in 1..Len(prefixes_to_remove) :
          \A rest \in {AfterLabel(strip(lower(answer)),
                                  Len(prefixes_to_remove[
                                         FirstPrefix(strip(lower(answer)))]))} :
             (/\ startswith(rest, prefixes_to_remove[q])
              /\ rest[Len(rest)] \in Digits) =>
                startswith(normalized, prefixes_to_remove[q])

\* |a - b|
Distance(a, b) ==
    Num(IF Lt(a, b) THEN b.n * a.d - a.n * b.d ELSE a.n * b.d - b.n * a.d,
        a.d * b.d)

\* |a - b| / max(a, b) < 0.05, for a greater numeral above zero
RelativelyNear(a, b) ==
    /\ max(a, b).n > 0
    /\ Lt(Distance(a, b), Num(5 * max(a, b).n, 100 * max(a, b).d))

\* the string has a numeral
HasNumeral(s) == findall_numerals(s) # <<>>

\* the first numeral of a string that has one
FirstNumeral(s) == float(findall_numerals(s)[1])

\* neither string is the other or a part of the other, both have a numeral:
\* the pair reaches the numeral rule
ReachesNumeralRule(expected, actual) ==
    /\ expected # actual
    /\ ~contains(actual, expected)
    /\ ~contains(expected, actual)
    /\ HasNumeral(expected)
    /\ HasNumeral(actual)

\* C22 as stated: two unequal strings one of which is part of the other
\* score 0.9 whatever their numerals, and a pair that reaches the numeral
\* rule with a relative difference below 0.05 scores 0.8
C22_FirstRuleWinsAsStated ==
    (sim.spc \in {"scored", "compared"} /\ sim.expected # sim.actual) =>
       /\ (contains(sim.actual, sim.expected)
             \/ contains(sim.expected, sim.actual)) => sim.score = Num(9, 10)
       /\ (/\ ReachesNumeralRule(sim.expected, sim.actual)
           /\ RelativelyNear(FirstNumeral(sim.expected),
                             FirstNumeral(sim.actual))) =>
             sim.score = Num(8, 10)

\* C22: two unequal strings one of which is part of the other score 0.9
\* whatever their numerals, and a pair that reaches the numeral rule with an
\* absolute difference of at least 0.001 and a relative difference below
\* 0.05 scores 0.8, whatever its token similarity
C22_FirstRuleWins ==
    (sim.spc \in {"scored", "compared"} /\ sim.expected # sim.actual) =>
       /\ (contains(sim.actual, sim.expected)
             \/ contains(sim.expected, sim.actual)) => sim.score = Num(9, 10)
       /\ (/\ ReachesNumeralRule(sim.expected, sim.actual)
           /\ ~Lt(Distance(FirstNumeral(sim.expected),
                           FirstNumeral(sim.actual)), Num(1, 1000))
           /\ RelativelyNear(FirstNumeral(sim.expected),
                             FirstNumeral(sim.actual))) =>
             sim.score = Num(8, 10)

\* the same tokens in another order, with first numerals 99 and 100, scored
\* 0.8 although their token similarity is 1
C22_Witness ==
    /\ sim.spc = "scored"
    /\ sim.expected = <<"9","9"," ","1","0","0">>
    /\ sim.actual = <<"1","0","0"," ","9","9">>
    /\ token_similarity(sim.expected, sim.actual) = Num(1, 1)
    /\ sim.score = Num(8, 10)

\* 0.95 for numerals less than 0.001 apart, 0.8 for numerals relatively
\* near, otherwise the token similarity
ScoreOfNumerals(a, b, jaccard) ==
    IF Lt(Distance(a, b), Num(1, 1000)) THEN Num(95, 100)
    ELSE IF RelativelyNear(a, b) THEN Num(8, 10)
    ELSE jaccard

\* C23: a pair that reaches the numeral rule scores by the first numeral of
\* each string alone: 0.95 if they are less than 0.001 apart, else 0.8 if
\* their relative difference is below 0.05, else the token similarity
C23_NumeralRuleOnFirstNumerals ==
    (/\ sim.spc \in {"scored", "compared"}
     /\ ReachesNumeralRule(sim.expected, sim.actual)) =>
       sim.score = ScoreOfNumerals(FirstNumeral(sim.expected),
                                   FirstNumeral(sim.actual),
                                   token_similarity(sim.expected, sim.actual))

\* "99 100" against "100 y" scored 0.8 for 99 and 100, although the second
\* numeral of the one is the first numeral of the other
C23_Witness ==
    /\ sim.spc = "scored"
    /\ sim.expected = <<"9","9"," ","1","0","0">>
    /\ sim.actual = <<"1","0","0"," ","y">>
    /\ Len(findall_numerals(sim.expected)) = 2
    /\ sim.numerals = "near"
    /\ sim.score = Num(8, 10)

\* the scorer was given "1/2" and "0.5", which are their own normal forms
HalfAgainstDecimal ==
    /\ sim.spc \in {"scored", "compared"}
    /\ sim.expected = <<"1","/","2">>
    /\ sim.actual = <<"0",".","5">>
    /\ normalize_mathematical_answer(sim.expected) = sim.expected
    /\ normalize_mathematical_answer(sim.actual) = sim.actual

\* C24 as stated: for "1/2" against "0.5" the first numerals are the
\* integers 1 and 0, exactly 1 apart, the numeral rule returns nothing and
\* the score is the token similarity
C24_FractionFallsToTokensAsStated ==
    HalfAgainstDecimal =>
       /\ findall_numerals(sim.expected)[1] = <<"1">>
       /\ findall_numerals(sim.actual)[1] = <<"0">>
       /\ Distance(FirstNumeral(sim.expected), FirstNumeral(sim.actual))
             = Num(1, 1)
       /\ sim.numerals = "fall"
       /\ sim.score = token_similarity(sim.expected, sim.actual)

\* C24: for "1/2" against "0.5" the first numerals are 1 and 0.5, 0.5
\* apart, the numeral rule returns nothing and the score is the token
\* similarity, 0.0
C24_FractionFallsToTokens ==
    HalfAgainstDecimal =>
       /\ findall_numerals(sim.expected)[1] = <<"1">>
       /\ findall_numerals(sim.actual)[1] = <<"0",".","5">>
       /\ Distance(FirstNumeral(sim.expected), FirstNumeral(sim.actual))
             = Num(1, 2)
       /\ sim.numerals = "fall"
       /\ sim.score = token_similarity(sim.expected, sim.actual)
       /\ sim.score = Num(0, 1)

\* "1/2" against "0.5" was scored 0.0
C24_Witness ==
    /\ sim.spc = "scored"
    /\ sim.expected = <<"1","/","2">>
    /\ sim.actual = <<"0",".","5">>
    /\ sim.score = Num(0, 1)

\* the first of answer_patterns that matches somewhere in the response, 0
\* if none does
FirstPattern(response) ==
    IF \E k \in 1..4 : SearchFrom(response, 1, k).ok
    THEN CHOOSE k \in 1..4 :
            /\ SearchFrom(response, 1, k).ok
            /\ \A j \in 1..(k - 1) : ~SearchFrom(response, 1, j).ok
    ELSE 0

\* a line that looks like an answer: not empty, no question, shorter than
\* 100 characters
AnswerLine(line) ==
    line # <<>> /\ ~endswith(line, <<"?">>) /\ Len(line) < MaxAnswerLineLen

\* extracted is what the rules of the extractor give for the response
ExtractedAs(response, extracted) ==
    /\ response = <<>> => extracted = <<>>
    /\ FirstPattern(response) > 0 =>
          extracted =
             strip(SearchFrom(response, 1, FirstPattern(response)).group)
    /\ (response # <<>> /\ FirstPattern(response) = 0) =>
          \A lines \in {SplitLines(strip(response), 1)} :
             IF \E k \in 1..Len(lines) : AnswerLine(strip(lines[k]))
             THEN \E k \in 1..Len(lines) :
                     /\ AnswerLine(strip(lines[k]))
                     /\ \A j \in (k + 1)..Len(lines) :
                           ~AnswerLine(strip(lines[j]))
                     /\ extracted = strip(lines[k])
             ELSE extracted = strip(response)

\* C25: the extractor returns what the first pattern, in the order of the
\* patterns, that matches anywhere in the response captured, wherever the
\* other patterns match; when no pattern matches, the last line that is not
\* empty, does not end in "?" and is shorter than 100 characters; when there
\* is no such line, the whole trimmed response; and "" for ""
C25_ExtractorPrecedence ==
    \A c \in Callers :
       (kind = "accuracy" /\ pc[c] # "idle"
          /\ tcase[c].actual_output # None) =>
          ExtractedAs(tcase[c].actual_output, loc[c].actual_clean)

\* a response with "Therefore, x = 5" on the line before "Answer: 4" gave
\* the extracted answer "4"
C25_Witness ==
    /\ kind = "accuracy"
    /\ pc[1] = "returned"
    /\ startswith(tcase[1].actual_output,
                  <<"T","h","e","r","e","f","o","r","e",",">>)
    /\ SearchFrom(tcase[1].actual_output, 1, 3).ok
    /\ FirstPattern(tcase[1].actual_output) = 1
    /\ loc[1].actual_clean = <<"4">>

\* C26: with strict matching the accuracy score is 1.0 when the normalized
\* expected answer equals the normalized extracted answer and 0.0 when it
\* does not; the judge is not asked, and the score is the one returned and
\* stored
C26_StrictScoresExactly ==
    \A c \in Callers :
       (kind = "accuracy" /\ config.strict_matching /\ pc[c] # "idle") =>
          /\ loc[c].score =
                IF normalize_mathematical_answer(tcase[c].expected_output)
                      = normalize_mathematical_answer(loc[c].actual_clean)
                THEN Num(1, 1) ELSE Num(0, 1)
          /\ pc[c] # "judge_wait"
          /\ loc[c].judge_calls = 0
          /\ ~loc[c].llm_score.some
          /\ pc[c] \in {"returned", "done"} =>
                ret[c] = Some(loc[c].score) /\ self.score = Some(loc[c].score)

\* a strict metric with the judge enabled has returned 0.0 for an answer
\* that has the expected answer inside it, which the similarity ladder
\* scores 0.9
C26_Witness ==
    /\ kind = "accuracy"
    /\ config.strict_matching
    /\ config.use_llm_evaluation
    /\ pc[1] = "returned"
    /\ ret[1] = Some(Num(0, 1))
    /\ calculate_similarity_score(
          normalize_mathematical_answer(tcase[1].expected_output),
          normalize_mathematical_answer(loc[1].actual_clean)) = Num(9, 10)

\* x clamped into [0, 1]
Clamped(x) ==
    IF Lt(Num(1, 1), x) THEN Num(1, 1)
    ELSE IF Lt(x, Num(0, 1)) THEN Num(0, 1) ELSE x

\* C27: whatever the judge replied, its score is in [0, 1]; for a reply
\* with a numeral it is the first numeral of the reply clamped into [0, 1],
\* so 1.0 for the reply "85"
C27_JudgeScoreClamped ==
    \A c \in Callers :
       loc[c].reply.some =>
          /\ loc[c].llm_score.some
          /\ Ge(loc[c].llm_score.v, Num(0, 1))
          /\ Ge(Num(1, 1), loc[c].llm_score.v)
          /\ (/\ loc[c].reply.v.kind = "reply"
              /\ loc[c].reply.v.content # None
              /\ HasNumeral(loc[c].reply.v.content)) =>
                loc[c].llm_score.v
                   = Clamped(FirstNumeral(loc[c].reply.v.content))
          /\ loc[c].reply.v = [kind |-> "reply", content |-> <<"8","5">>] =>
                loc[c].llm_score.v = Num(1, 1)

\* the judge replied "85" and the call returned 1.0
C27_Witness ==
    /\ pc[1] = "returned"
    /\ loc[1].reply = Some([kind |-> "reply", content |-> <<"8","5">>])
    /\ loc[1].llm_score = Some(Num(1, 1))
    /\ ret[1] = Some(Num(1, 1))

\* a word of the vocabulary occurs in the text, in capitals or not
Occurs(text, vocabulary) == \E w \in vocabulary : contains(lower(text), w)

\* the decimal sum of the weights of the components whose vocabulary
\* occurs in the text
WeightSum(text) ==
    Num((IF Occurs(text, answer_indicators) THEN 4 ELSE 0)
          + (IF Occurs(text, step_indicators) THEN 3 ELSE 0)
          + (IF Occurs(text, explanation_indicators) THEN 2 ELSE 0)
          + (IF Occurs(text, reasoning_indicators) THEN 1 ELSE 0), 10)

\* the names of the components whose vocabulary occurs in the text
Detected(text) ==
    (IF Occurs(text, answer_indicators) THEN <<"final answer">> ELSE <<>>)
    \o (IF Occurs(text, step_indicators) THEN <<"solution steps">> ELSE <<>>)
    \o (IF Occurs(text, explanation_indicators)
        THEN <<"explanation">> ELSE <<>>)
    \o (IF Occurs(text, reasoning_indicators)
        THEN <<"mathematical reasoning">> ELSE <<>>)

\* the completeness metric measures this caller's text
MeasuresCompleteness(c) ==
    /\ kind = "completeness"
    /\ pc[c] \notin {"idle", "raised"}
    /\ tcase[c].actual_output # None

\* the first three components and not the fourth
AllButReasoning == <<"final answer", "solution steps", "explanation">>

\* C28 as stated: the completeness score is the sum of the weights of the
\* detected components (as the doubles add up), and it is 0.9 for all but
\* formal reasoning; the reason lists the detected components; passed =
\* (score >= threshold)
C28_CompletenessWeightsAsStated ==
    \A c \in Callers :
       MeasuresCompleteness(c) =>
          /\ [loc[c].score EXCEPT !.e = 0] = WeightSum(tcase[c].actual_output)
          /\ loc[c].components = Detected(tcase[c].actual_output)
          /\ loc[c].components = AllButReasoning =>
                loc[c].score = Num(9, 10)
          /\ pc[c] \in {"returned", "done"} =>
                /\ self.success = Some(Ge(loc[c].score, config.threshold))
                /\ (config.include_reason /\ loc[c].components # <<>>) =>
                      self.reason.v.contains = loc[c].components
                /\ (loc[c].components = AllButReasoning
                      /\ config.threshold = Num(7, 10)) =>
                      self.success = Some(TRUE)

\* C28: the completeness score is the sum of the weights of the detected
\* components as the doubles add up, the double of the decimal sum or the
\* one next to it: for all but formal reasoning the double below 0.9,
\* which prints as 0.90, passes at threshold 0.7 and fails at 0.9; the
\* reason lists the detected components; passed = (score >= threshold)
C28_CompletenessWeights ==
    \A c \in Callers :
       MeasuresCompleteness(c) =>
          /\ [loc[c].score EXCEPT !.e = 0] = WeightSum(tcase[c].actual_output)
          /\ loc[c].score.e \in {-1, 0, 1}
          /\ loc[c].components = Detected(tcase[c].actual_output)
          /\ loc[c].components = AllButReasoning =>
                /\ loc[c].score = [Num(9, 10) EXCEPT !.e = -1]
                /\ Lt(loc[c].score, Num(9, 10))
                /\ Round2(loc[c].score) = 90
          /\ pc[c] \in {"returned", "done"} =>
                /\ self.success = Some(Ge(loc[c].score, config.threshold))
                /\ (config.include_reason /\ loc[c].components # <<>>) =>
                      self.reason.v.contains = loc[c].components
                /\ loc[c].components = AllButReasoning =>
                      self.success = Some(config.threshold = Num(7, 10))

\* a text with a final answer, steps and an explanation has passed at the
\* default threshold 0.7
C28_Witness ==
    /\ kind = "completeness"
    /\ pc[1] = "returned"
    /\ config.threshold = Num(7, 10)
    /\ loc[1].components = AllButReasoning
    /\ self.success = Some(TRUE)

\* the first of confidence_patterns that matches somewhere in the
\* lowercased text, 0 if none does
FirstConfidencePattern(text) ==
    IF \E k \in 1..3 : SearchConfidence(lower(text), 1, k).ok
    THEN CHOOSE k \in 1..3 :
            /\ SearchConfidence(lower(text), 1, k).ok
            /\ \A j \in 1..(k - 1) : ~SearchConfidence(lower(text), 1, j).ok
    ELSE 0

\* a + b
Plus(a, b) == Num(a.n * b.d + b.n * a.d, a.d * b.d)

\* the number N a pattern supplies, as a confidence: N / 100 above 1
AsConfidence(n) == IF Lt(Num(1, 1), n) THEN Num(n.n, n.d * 100) ELSE n

\* the locals l are what the confidence rules give for the text
ConfidenceScoredAs(text, l) ==
    \A k \in {FirstConfidencePattern(text)} :
       /\ k = 0 => ~l.confidence.ok /\ l.score = Num(5, 10)
       /\ k > 0 =>
             /\ l.confidence.ok
             /\ l.confidence.rule = k
             /\ l.confidence.value =
                   AsConfidence(
                      float(SearchConfidence(lower(text), 1, k).group))
             /\ [l.score EXCEPT !.e = 0] =
                   min(Plus(l.confidence.value, Num(2, 10)), Num(1, 1))
       /\ Ge(l.score, Num(0, 1))
       /\ Ge(Num(1, 1), l.score)

\* C29: the confidence metric takes the number N of the first of the
\* patterns "confidence: N", "N% confident", "certainty: N" that matches,
\* divides it by 100 if it is above 1 and takes it as it is otherwise,
\* percent sign or not; the score is min(confidence + 0.2, 1.0), in [0, 1];
\* with no match the score is 0.5, which fails at threshold 0.7
C29_ConfidenceScore ==
    \A c \in Callers :
       (/\ kind = "confidence"
        /\ pc[c] \notin {"idle", "raised"}
        /\ tcase[c].actual_output # None) =>
          /\ ConfidenceScoredAs(tcase[c].actual_output, loc[c])
          /\ pc[c] \in {"returned", "done"} =>
                /\ ret[c] = Some(loc[c].score)
                /\ self.score = Some(loc[c].score)
                /\ self.success = Some(Ge(loc[c].score, config.threshold))
                /\ (~loc[c].confidence.ok /\ config.threshold = Num(7, 10)) =>
                      self.success = Some(FALSE)

\* a text with "certainty: 90" before "85% confident" was scored on the 85
\* of the second pattern, as confidence 0.85
C29_Witness ==
    /\ kind = "confidence"
    /\ pc[1] = "returned"
    /\ startswith(tcase[1].actual_output,
                  <<"c","e","r","t","a","i","n","t","y",":"," ","9","0">>)
    /\ loc[1].confidence.ok
    /\ loc[1].confidence.rule = 2
    /\ loc[1].confidence.value = Num(85, 100)
    /\ ret[1] = Some(Num(1, 1))

\* C30: the summary of a batch that is not empty counts every result once:
\* exact_matches + partial_matches + no_matches = total_cases, the number of
\* results, and exact_accuracy <= partial_accuracy <= 100; the summary of an
\* empty batch has the error entry and nothing else
C30_SummaryCountsPartition ==
    /\ tally.tpc = "counting" =>
          tally.counts.exact_matches + tally.counts.partial_matches
             + tally.counts.no_matches = Len(tally.counts.answer_lengths)
    /\ tally.tpc = "returned" =>
          IF tally.detailed_results = <<>>
          THEN DOMAIN tally.summary = {"error"}
          ELSE /\ "error" \notin DOMAIN tally.summary
               /\ tally.summary.total_cases = Len(tally.detailed_results)
               /\ tally.summary.exact_matches + tally.summary.partial_matches
                     + tally.summary.no_matches = tally.summary.total_cases
               /\ Ge(tally.summary.partial_accuracy,
                     tally.summary.exact_accuracy)
               /\ Ge(Num(100, 1), tally.summary.partial_accuracy)

\* a batch with an exact match, a numerically equivalent answer and a wrong
\* answer has its summary: one of each
C30_Witness ==
    /\ tally.tpc = "returned"
    /\ Len(tally.detailed_results) = 3
    /\ tally.detailed_results[2].actual = <<"3",".","9","9","5">>
    /\ tally.summary.exact_matches = 1
    /\ tally.summary.partial_matches = 1
    /\ tally.summary.no_matches = 1
====
